---- MODULE Spec2Model ----
(***************************************************************************)
(* Model of the ZAP scan orchestrator (src/src/collectors/zapScan.ts,      *)
(* class ZAPScanner) and of the security-scan branch of the monitoring     *)
(* fixture (src/src/monitoring.ts).                                        *)
(*                                                                         *)
(* One run of monitoring({securityScan: true}) is modelled: the fixture    *)
(* calls performScan, which drives the daemon through configuration,       *)
(* context initialisation, spider, active scan and result collection.     *)
(* Every daemon request is a nondeterministic choice between a reply and   *)
(* a thrown error.  Error messages are sequences of text fragments, and    *)
(* String.includes is membership of a fragment in the sequence.            *)
(***************************************************************************)
EXTENDS Integers, Sequences, FiniteSets, TLC

VARIABLES
  pc,          \* control point of the run
  isFullScan,  \* performScan's first argument
  options,     \* the ZAPScanOptions handed to performScan
  stack,       \* the withRetry invocations in progress, innermost last
  errors,      \* executeScan's local errors list
  phaseReqs,   \* start requests sent to the daemon in the current phase
  poll,        \* locals of the waitForCompletion in progress
  tasks,       \* the two withRetry chains of collectScanResults' Promise.all
  outcome,     \* how performScan ended: nothing yet, a returned result, a thrown error
  monitor,     \* how the monitoring call ended
  lastRetry,   \* what the withRetry touched by the last step did
  ajaxDown,    \* daemon condition: ajaxSpider.scan answers every request with an error
  daemon,      \* the daemon of the run: a live one, or the mock of the end-to-end test
  jobs,        \* daemon side: the state of the spider job and of the active-scan job
  disposed,    \* whether cleanup has run, and how it ended
  zap,         \* daemon side: the throttling calls received, the scan context
  zapScanner,  \* monitoring.ts' module-level scanner: none yet, or the instance
  runs,        \* the performScan runs begun on the instance in this worker process
  testNo       \* the test the worker process is running

\* The worker process across its monitoring calls ...
session == <<zapScanner, runs, testNo>>

\* ... and one of these calls in detail.
run == <<pc, isFullScan, options, stack, errors, phaseReqs, poll, tasks,
         outcome, monitor, lastRetry, ajaxDown, daemon, jobs, disposed, zap>>

vars == <<run, session>>

----------------------------------------------------------------------------
(* Program constants *)

scanRetries == 3
scanRetryDelay == 5000
timeoutSpider == 7200000
timeoutAjaxSpider == 7200000
timeoutActiveScan == 14400000
maxStaleChecks == 12
pollInterval == 5000

(* Bounds of the model *)

\* tests a worker process runs, and performScan runs it begins
MaxTests == 3
MaxRuns == 4

\* longest alert list the daemon returns
MaxAlerts == 2
\* longest errors list handed to collectScanResults
MaxErrors == 3
\* largest request rate and thread count asked for in the options
MaxRate == 12
MaxThreads == 8
\* polls of one waitForCompletion the model follows
MaxPolls == 14

NaN == -1

----------------------------------------------------------------------------
(* Errors thrown by a daemon request *)

NetworkFragments == {"ECONNREFUSED", "ETIMEDOUT", "socket hang up"}

DaemonErrors == {<<"ECONNREFUSED">>, <<"bad_request">>}

\* lines 108-110: lastError.message.includes(...)
isNetworkError(msg) == \E i \in DOMAIN msg : msg[i] \in NetworkFragments

Includes(msg, fragment) == \E i \in DOMAIN msg : msg[i] = fragment

----------------------------------------------------------------------------
(* withRetry, lines 99-129.  A frame holds the locals of one invocation:   *)
(* attempt is the loop counter, i.e. the number of the operation call in   *)
(* progress; slept lists the delays slept so far; failures, no local of the *)
(* code, lists how each failed attempt so far was classified.  Two more     *)
(* fields are no locals either: contexts lists the names this invocation's  *)
(* attempts passed to context.newContext, and nested counts the attempts    *)
(* made so far by the withRetry calls this invocation's operation made.     *)

NewFrame(name, label) ==
  [name |-> name, label |-> label, attempt |-> 1,
   backoffDelay |-> scanRetryDelay, lastError |-> <<>>, slept |-> <<>>,
   failures |-> <<>>, contexts |-> <<>>, nested |-> 0]

\* The failure message without the label.
retryFailureMessage_NoLabel(name, lastError) ==
  <<"Operation", "failed after", ToString(scanRetries), "attempts. Last error:">>
    \o lastError

\* line 128
retryFailureMessage(name, lastError) ==
  <<name, "failed after", ToString(scanRetries), "attempts. Last error:">> \o lastError

\* Two attempts more than scanRetries.
retryLoopContinues_TwoMore(attempt) == attempt <= scanRetries + 2

\* The loop bound off by one, either way.
retryLoopContinues_OneMore(attempt) == attempt <= scanRetries + 1
retryLoopContinues_OneLess(attempt) == attempt < scanRetries

\* line 103: the loop condition
retryLoopContinues(attempt) == attempt <= scanRetries

\* The delay never raised, and the delay back at the base for an error that
\* is no network error.
nextDelay_Constant(backoffDelay, network) == backoffDelay
nextDelay_Reset(backoffDelay, network) ==
  IF network THEN backoffDelay * 2 ELSE scanRetryDelay

\* lines 119-121: if (isNetworkError) backoffDelay *= 2
nextDelay(backoffDelay, network) ==
  IF network THEN backoffDelay * 2 ELSE backoffDelay

\* lines 106-125: the catch block of one failed attempt, then attempt++
retryCatch(f, err) ==
  LET sleeps == f.attempt < scanRetries
      delay  == IF sleeps THEN nextDelay(f.backoffDelay, isNetworkError(err))
                ELSE f.backoffDelay
  IN [f EXCEPT !.attempt = @ + 1, !.lastError = err, !.backoffDelay = delay,
               !.slept = IF sleeps THEN Append(@, delay) ELSE @,
               !.failures = Append(@, IF isNetworkError(err) THEN "network"
                                      ELSE "operation")]

\* An attempt of the innermost withRetry throws err.  Either some enclosing
\* withRetry retries, or the error leaves every withRetry in progress.
\* Nested withRetry calls (Session Configuration inside Context
\* Initialization, ZAP Configuration inside Scan Initialization) have no
\* catch between them, so the inner final error is the outer attempt's error.
RECURSIVE withRetryThrow(_, _)
withRetryThrow(stk, err) ==
  IF stk = <<>> THEN [stack |-> <<>>, thrown |-> TRUE, err |-> err]
  ELSE
    LET f == stk[Len(stk)]
        g == retryCatch(f, err)
    IN IF retryLoopContinues(g.attempt)
       THEN [stack |-> [stk EXCEPT ![Len(stk)] = g], thrown |-> FALSE, err |-> err]
       ELSE withRetryThrow(SubSeq(stk, 1, Len(stk) - 1),
                           retryFailureMessage(f.name, g.lastError))

Top == stack[Len(stack)]
Pop == SubSeq(stack, 1, Len(stack) - 1)

\* What the last step did to the withRetry whose operation it ran: the
\* operation's call number, and either the value returned, or the error of
\* the attempt and, when withRetry gave up, the message it threw; nested is
\* the number of attempts made so far inside the enclosing withRetry
\* invocation by the withRetry calls of its operation, 0 when none encloses.
NoRetry ==
  [name |-> "", kind |-> "none", calls |-> 0, error |-> <<>>, message |-> <<>>,
   value |-> "", nested |-> 0]

RetryReturned(f, value) ==
  [name |-> f.name, kind |-> "returned", calls |-> f.attempt, error |-> <<>>,
   message |-> <<>>, value |-> value, nested |-> 0]

RetryFailed(f, err) ==
  LET g == retryCatch(f, err)
  IN IF retryLoopContinues(g.attempt)
     THEN [name |-> f.name, kind |-> "retry", calls |-> f.attempt, error |-> err,
           message |-> <<>>, value |-> "", nested |-> 0]
     ELSE [name |-> f.name, kind |-> "threw", calls |-> f.attempt, error |-> err,
           message |-> retryFailureMessage(f.name, g.lastError), value |-> "",
           nested |-> 0]

\* An attempt of a withRetry call made by the operation of the enclosing
\* invocation begins.
nestedAttempt(stk) == [stk EXCEPT ![1].nested = @ + 1]

nestedOf(stk) == IF Len(stk) >= 2 THEN stk[1].nested ELSE 0

----------------------------------------------------------------------------
(* Results *)

RiskKeys == {"High", "Medium", "Low", "Informational"}

\* Risk labels the daemon may put on an alert; "Critical" is none of AlertRisk.
DaemonRiskLabels == RiskKeys \cup {"Critical"}

\* lines 563-579 and 465-481
ZeroStats ==
  [requestCount |-> 0,
   alertsByRisk |-> [k \in RiskKeys |-> 0],
   totalDuration |-> 0]

\* lines 658-661: stats.alertsByRisk[risk]++ over the alerts in order.  A label
\* that is no key of the record creates the key with undefined + 1 = NaN.
RECURSIVE countAlertsByRisk(_, _)
countAlertsByRisk(byRisk, alerts) ==
  IF alerts = <<>> THEN byRisk
  ELSE LET risk == Head(alerts).risk
           next == IF risk \in DOMAIN byRisk
                   THEN [byRisk EXCEPT ![risk] = IF @ = NaN THEN NaN ELSE @ + 1]
                   ELSE [k \in DOMAIN byRisk \cup {risk} |->
                           IF k = risk THEN NaN ELSE byRisk[k]]
       IN countAlertsByRisk(next, Tail(alerts))

\* lines 400-414: one group per phase, in order of first appearance; within a
\* group the messages in list order.
NoErrorsReport == <<[phase |-> "No errors occurred during the scan.", lines |-> <<>>]>>

\* line 405: the line of one error, `[${error.timestamp}] ${error.message}`
reportLine(e) == [timestamp |-> e.timestamp, message |-> e.message]

\* Each new line put at the head of its group.
RECURSIVE errorsByPhase_NewestFirst(_, _)
errorsByPhase_NewestFirst(acc, errs) ==
  IF errs = <<>> THEN acc
  ELSE LET e == Head(errs)
           known == \E i \in DOMAIN acc : acc[i].phase = e.phase
           next == IF known
                   THEN [i \in DOMAIN acc |->
                           IF acc[i].phase = e.phase
                           THEN [acc[i] EXCEPT !.lines = <<reportLine(e)>> \o @]
                           ELSE acc[i]]
                   ELSE Append(acc, [phase |-> e.phase, lines |-> <<reportLine(e)>>])
       IN errorsByPhase_NewestFirst(next, Tail(errs))

RECURSIVE errorsByPhase(_, _)
errorsByPhase(acc, errs) ==
  IF errs = <<>> THEN acc
  ELSE LET e == Head(errs)
           known == \E i \in DOMAIN acc : acc[i].phase = e.phase
           next == IF known
                   THEN [i \in DOMAIN acc |->
                           IF acc[i].phase = e.phase
                           THEN [acc[i] EXCEPT !.lines = Append(@, reportLine(e))]
                           ELSE acc[i]]
                   ELSE Append(acc, [phase |-> e.phase, lines |-> <<reportLine(e)>>])
       IN errorsByPhase(next, Tail(errs))

formatErrorReport(errs) ==
  IF Len(errs) = 0 THEN NoErrorsReport ELSE errorsByPhase(<<>>, errs)

NoResult ==
  [status |-> "none", scanType |-> "", stats |-> ZeroStats, alerts |-> <<>>,
   errors |-> <<>>, errorReport |-> <<>>]

\* The partial result with the errors list left out, and with the wrong status.
partialResults_NoErrors(errorMsg, full) ==
  [status |-> "failed", scanType |-> IF full THEN "full" ELSE "quick",
   stats |-> ZeroStats, alerts |-> <<>>, errors |-> <<>>,
   errorReport |-> formatErrorReport(<<>>)]

partialResults_Completed(errorMsg, full) ==
  LET errs == <<[phase |-> "Fatal Error", message |-> errorMsg, timestamp |-> 0]>>
  IN [status |-> "completed", scanType |-> IF full THEN "full" ELSE "quick",
      stats |-> ZeroStats, alerts |-> <<>>, errors |-> errs,
      errorReport |-> formatErrorReport(errs)]

\* lines 450-485: the partial result embedded in the error performScan throws.
\* It has no alerts property; the model keeps the field empty.
partialResults(errorMsg, full) ==
  LET errs == <<[phase |-> "Fatal Error", message |-> errorMsg, timestamp |-> 0]>>
  IN [status |-> "failed", scanType |-> IF full THEN "full" ELSE "quick",
      stats |-> ZeroStats, alerts |-> <<>>, errors |-> errs,
      errorReport |-> formatErrorReport(errs)]

\* a url without query parameters
PlainUrl == <<>>

\* line 420
sensitiveParams == {"key", "token", "password", "secret", "auth"}

\* The url handed on as it came.
sanitizeUrl_Untouched(url) == url

\* lines 416-427: the parameters of a sensitive name deleted from the url
\* (searchParams.delete, which compares names exactly).  The urls are taken
\* to be absolute and in the form URL.toString() gives, and the catch branch
\* for a url that does not parse is not followed.
sanitizeUrl(url) == SelectSeq(url, LAMBDA name : name \notin sensitiveParams)

\* lines 673-689: the alert of the result made from one alert of the daemon
resultAlert(alert) == [risk |-> alert.risk, url |-> sanitizeUrl(alert.url)]

\* The result with the counting loop left out.
scanResult_NotCounted(alerts, requestCount, full, errs) ==
  [status |-> "completed", scanType |-> IF full THEN "full" ELSE "quick",
   stats |-> [requestCount |-> requestCount,
              alertsByRisk |-> ZeroStats.alertsByRisk,
              totalDuration |-> 0],
   alerts |-> [i \in DOMAIN alerts |-> resultAlert(alerts[i])],
   errors |-> errs, errorReport |-> formatErrorReport(errs)]

\* The request count of the second chain lost.
scanResult_CountLost(alerts, requestCount, full, errs) ==
  [status |-> "completed", scanType |-> IF full THEN "full" ELSE "quick",
   stats |-> [requestCount |-> 0,
              alertsByRisk |-> countAlertsByRisk(ZeroStats.alertsByRisk, alerts),
              totalDuration |-> 0],
   alerts |-> [i \in DOMAIN alerts |-> resultAlert(alerts[i])],
   errors |-> errs, errorReport |-> formatErrorReport(errs)]

\* lines 657-693.  Durations, ids and timestamps are clock readings that no
\* property here reads; they are kept at 0.  An alert is its risk label.
scanResult(alerts, requestCount, full, errs) ==
  [status |-> "completed", scanType |-> IF full THEN "full" ELSE "quick",
   stats |-> [requestCount |-> requestCount,
              alertsByRisk |-> countAlertsByRisk(ZeroStats.alertsByRisk, alerts),
              totalDuration |-> 0],
   alerts |-> [i \in DOMAIN alerts |-> resultAlert(alerts[i])],
   errors |-> errs, errorReport |-> formatErrorReport(errs)]

----------------------------------------------------------------------------
(* Daemon replies *)

Ok(v) == [ok |-> TRUE, value |-> v, err |-> <<>>]
Rejected(e) == [ok |-> FALSE, value |-> "", err |-> e]

\* A request is answered with one of the values or fails with a daemon error.
Replies(values) == {Ok(v) : v \in values} \cup {Rejected(e) : e \in DaemonErrors}

\* The answers to a request: a live daemon gives any reply; the mock of the
\* end-to-end test answers every request and gives the scripted value.
Answers(values, scripted) ==
  IF daemon = "mock" THEN {Ok(scripted)} ELSE Replies(values)

\* The mock's script: spider progress 0, 50, 100; active-scan progress 0, 100;
\* two alerts, one Medium and one Low.
mockStatus(operation, n) ==
  LET script == IF operation = "Spider Scan" THEN <<"0", "50", "100">>
                ELSE <<"0", "100">>
  IN IF n \in DOMAIN script THEN script[n] ELSE "100"

mockAlerts == <<[risk |-> "Medium", url |-> <<>>], [risk |-> "Low", url |-> <<>>]>>

\* scan ids the daemon hands out
ScanIds == {"0"}

\* Codes of the daemon's error responses.  The client resolves such a
\* response like any other: the caller gets the object {code, message}.  A
\* reply value that is one of these codes stands for that object.
ErrorCodes == {"illegal_parameter", "does_not_exist", "url_not_found"}

\* lines 604 and 628, result.toString(), and the `${status}` of lines 762 and
\* 786: a string is itself, the object of an error response is the text
\* "[object Object]"
toString(response) ==
  IF response \in ErrorCodes THEN "[object Object]" ELSE response

\* status strings of spider.status and ascan.status
StatusValues == {"0", "50", "100", "stopped"}

\* status strings of ajaxSpider.status, which takes no scan id
AjaxStatusValues == {"running", "stopped"}

\* What the daemon answers a status request for scanId: the status of the job
\* it gave that id to, or the error response for an id it never handed out.
StatusReplies(operation, scanId) ==
  IF operation = "AJAX Spider" THEN AjaxStatusValues
  ELSE IF scanId \in ScanIds THEN StatusValues ELSE {"does_not_exist"}

\* A status that is no number read as 0.
parseInt_NoNaN(str) ==
  CASE str = "0" -> 0
    [] str = "50" -> 50
    [] str = "100" -> 100
    [] str = "7" -> 7
    [] OTHER -> 0

\* parseInt(status, 10) on the status strings
parseInt(str) ==
  CASE str = "0" -> 0
    [] str = "50" -> 50
    [] str = "100" -> 100
    [] str = "7" -> 7
    [] OTHER -> NaN

----------------------------------------------------------------------------
(* State *)

NoOutcome == [kind |-> "none", message |-> <<>>, result |-> NoResult]

IdlePoll ==
  [operation |-> "", timeout |-> 0, scanId |-> "", elapsed |-> 0,
   lastProgress |-> 0, staleCount |-> 0, polls |-> 0, runLen |-> 0]

\* lines 712-715.  polls and runLen are no locals of the code: polls counts
\* the iterations begun, runLen the polls in a row, up to the last one
\* answered, that reported the same numeric value.
NewPoll(operation, timeout, scanId) ==
  [operation |-> operation, timeout |-> timeout, scanId |-> scanId, elapsed |-> 0,
   lastProgress |-> 0, staleCount |-> 0, polls |-> 0, runLen |-> 0]

IdleTask == [state |-> "idle", frame |-> NewFrame("", ""), alerts |-> <<>>, count |-> 0]

\* lines 236-243 of monitoring.ts: the options handed to performScan
ScanOptions(mo) ==
  [authHeaders |-> mo.cookies,
   maxRequestsPerSecond |-> IF mo.maxRequestsPerSecond # 0
                            THEN mo.maxRequestsPerSecond ELSE 10,
   maxScanDuration |-> IF mo.maxScanDuration # 0 THEN mo.maxScanDuration
                       ELSE IF mo.isFullScan THEN 14400 ELSE 3600,
   failOnHighRisks |-> mo.failOnHighRisks,
   threadCount |-> mo.threadCount]

\* The MonitoringOptions of the call; 0 stands for an absent number.
MonitoringOptions ==
  [isFullScan : BOOLEAN, failOnHighRisks : BOOLEAN, cookies : {1},
   maxRequestsPerSecond : {0}, maxScanDuration : {0}, threadCount : {0}]

\* The options of the end-to-end test, which calls performScan itself;
\* authHeaders 0 is the empty record.
TestOptions ==
  [authHeaders |-> 0, maxRequestsPerSecond |-> 10, maxScanDuration |-> 3600,
   failOnHighRisks |-> FALSE, threadCount |-> 0]

Init ==
  /\ pc = "verifyZapConnection"
  /\ daemon \in {"live", "mock"}
  /\ IF daemon = "live"
     THEN \E mo \in MonitoringOptions :
            /\ isFullScan = mo.isFullScan
            /\ options = ScanOptions(mo)
     ELSE /\ isFullScan \in BOOLEAN
          /\ options = TestOptions
  /\ stack = <<>>
  /\ errors = <<>>
  /\ phaseReqs = 0
  /\ poll = IdlePoll
  /\ tasks = [alerts |-> IdleTask, count |-> IdleTask]
  /\ outcome = NoOutcome
  /\ monitor = [kind |-> "running", exported |-> FALSE, exporters |-> {}]
  /\ lastRetry = NoRetry
  /\ ajaxDown \in (IF isFullScan /\ daemon = "live" THEN BOOLEAN ELSE {FALSE})
  /\ jobs = [spider |-> "none", ascan |-> "none"]
  /\ disposed = "no"
  /\ zap = [calls |-> {}, context |-> "none", contexts |-> {}, targets |-> {}]
  /\ zapScanner = [targetUrl |-> "null", scanStartTime |-> 0]
  /\ runs = <<>>
  /\ testNo = 1

----------------------------------------------------------------------------
(* performScan, lines 429-489 *)

\* The part of the run inside executeScan's try block (lines 585-636).
InExecuteScan ==
  \/ pc \in {"scanInit", "spiderStart", "poll", "statusCheck", "ascanStart", "collect"}
  \/ (pc = "zapConfig" /\ Len(stack) = 2)

\* The catch blocks returning the partial result instead of throwing.
performScanCatch_Returns(err) ==
  /\ errors' = IF InExecuteScan
               THEN Append(errors, [phase |-> "Scan Execution", message |-> err,
                                    timestamp |-> 0])
               ELSE errors
  /\ outcome' = [kind |-> "returned", message |-> <<>>,
                 result |-> partialResults(err, isFullScan)]
  /\ stack' = <<>>
  /\ poll' = IdlePoll
  /\ pc' = "gate"

\* The error recorded and a completed result returned all the same.
performScanCatch_Degraded(err) ==
  /\ errors' = Append(errors, [phase |-> "Scan Execution", message |-> err,
                               timestamp |-> 0])
  /\ outcome' = [kind |-> "returned", message |-> <<>>,
                 result |-> scanResult(<<>>, 0, isFullScan, errors')]
  /\ stack' = <<>>
  /\ poll' = IdlePoll
  /\ pc' = "gate"

\* An error leaves executeScan's try block (catch, lines 637-645: one more
\* entry in the local errors list, rethrow) and then performScan's (lines
\* 449-488: a failed partial result embedded in a new error).
performScanCatch(err) ==
  /\ errors' = IF InExecuteScan
               THEN Append(errors, [phase |-> "Scan Execution", message |-> err,
                                    timestamp |-> 0])
               ELSE errors
  /\ outcome' = [kind |-> "thrown",
                 message |-> <<"Scan failed:">> \o err \o <<"Partial Results:">>,
                 result |-> partialResults(err, isFullScan)]
  /\ stack' = <<>>
  /\ poll' = IdlePoll
  /\ pc' = "gate"

\* An error leaves waitForAjaxSpiderCompletion (lines 771-778).  No catch of
\* executeScan or performScan is around it: its only caller is the phase
\* handler of lines 266-284, where executePhase records the error of a phase
\* under the phase's name (lines 206-232).
ajaxSpiderThrows(err) ==
  /\ errors' = Append(errors, [phase |-> "AJAX Spider", message |-> err,
                                timestamp |-> 0])
  /\ stack' = <<>>
  /\ poll' = IdlePoll
  /\ pc' = "ajaxSpiderThrew"
  /\ UNCHANGED outcome

\* The stall error survived: polling goes on.
throws_StallSurvived(err) ==
  IF Includes(err, "appears to be stalled at")
  THEN pc' = "poll" /\ stack' = <<>> /\ UNCHANGED <<errors, outcome, poll>>
  ELSE IF poll.operation = "AJAX Spider" THEN ajaxSpiderThrows(err)
  ELSE performScanCatch(err)

\* An error leaves the code in progress.
throws(err) ==
  IF poll.operation = "AJAX Spider" THEN ajaxSpiderThrows(err)
  ELSE performScanCatch(err)

\* The operation of the innermost withRetry of stk throws err.
AttemptThrowsFrom(stk, err) ==
  LET u == withRetryThrow(stk, err)
  IN /\ lastRetry' = [RetryFailed(stk[Len(stk)], err) EXCEPT !.nested = nestedOf(stk)]
     /\ IF u.thrown THEN throws(u.err)
        ELSE /\ stack' = u.stack
             /\ pc' = u.stack[Len(u.stack)].label
             /\ UNCHANGED <<errors, outcome, poll>>

AttemptThrows(err) == AttemptThrowsFrom(stack, err)

\* lines 81-91 and 430: outside performScan's try block
verifyZapConnection ==
  /\ pc = "verifyZapConnection"
  /\ \E r \in Answers({"2.14.0", ""}, "2.14.0") :
       IF r.ok /\ r.value # ""
       THEN /\ pc' = "zapConfig"
            /\ stack' = <<NewFrame("ZAP Configuration", "zapConfig")>>
            /\ UNCHANGED outcome
       ELSE /\ outcome' =
                 [kind |-> "thrown",
                  message |-> <<"Failed to verify ZAP connection:">> \o
                              (IF r.ok THEN <<"No version returned from ZAP API">>
                               ELSE r.err),
                  result |-> NoResult]
            /\ pc' = "gate"
            /\ UNCHANGED stack
  /\ lastRetry' = NoRetry
  /\ UNCHANGED <<isFullScan, options, errors, phaseReqs, poll, tasks, monitor, ajaxDown, daemon, zap, jobs, disposed, session>>

\* Math.min
Min(a, b) == IF a <= b THEN a ELSE b

\* Math.ceil(n / d) for a positive d
ceil(n, d) == IF n % d = 0 THEN n \div d ELSE n \div d + 1

\* The cap left out.
threadCount_Uncapped(opts) == IF opts.threadCount # 0 THEN opts.threadCount ELSE 4

\* lines 143 and 582: Math.min(options.threadCount || 4, 6); an absent
\* threadCount is 0 here, and 0 || 4 is 4 too
threadCount(opts) == Min(IF opts.threadCount # 0 THEN opts.threadCount ELSE 4, 6)

\* lines 148 and 583: Math.ceil(1000 / (options.maxRequestsPerSecond || 10))
minDelay(opts) ==
  ceil(1000, IF opts.maxRequestsPerSecond # 0 THEN opts.maxRequestsPerSecond ELSE 10)

\* lines 144-145 and 149-150: the calls of configureZapSettings that carry
\* the thread count or the delay
configureCalls(opts) ==
  {[call |-> "core.setOptionHostPerScan", threads |-> threadCount(opts), delay |-> 0,
    maxDuration |-> 0],
   [call |-> "core.setOptionThreadPerHost", threads |-> threadCount(opts), delay |-> 0,
    maxDuration |-> 0],
   [call |-> "spider.setOptionDelayInMs", threads |-> 0, delay |-> minDelay(opts),
    maxDuration |-> 0],
   [call |-> "ascan.setOptionDelayInMs", threads |-> 0, delay |-> minDelay(opts),
    maxDuration |-> 0]}

\* lines 612-626: the ascan.scan call, with maxScansInUI and threadPerHost
\* the thread count and maxDuration the options' maxScanDuration
scanCall(opts) ==
  [call |-> "ascan.scan", threads |-> threadCount(opts), delay |-> minDelay(opts),
   maxDuration |-> opts.maxScanDuration]

\* lines 131-166: one attempt of the 'ZAP Configuration' body.  It runs at line
\* 435 and again, nested in 'Scan Initialization', at line 589, where its
\* return ends the enclosing attempt too.
configureZapSettings ==
  /\ pc = "zapConfig"
  /\ LET stk == IF Len(stack) = 2 THEN nestedAttempt(stack) ELSE stack
     IN \E r \in Answers({"ok"}, "ok") :
          IF r.ok
          THEN /\ lastRetry' = [RetryReturned(Top, "ok") EXCEPT !.nested = nestedOf(stk)]
               /\ zap' = [zap EXCEPT !.calls = @ \cup configureCalls(options)]
               /\ IF Len(stack) = 1
                  THEN /\ pc' = "authHeaders"
                       /\ stack' = <<NewFrame("Setting Auth Headers", "authHeaders")>>
                  ELSE /\ pc' = "spiderStart"
                       /\ stack' = <<NewFrame("Spider Scan Start", "spiderStart")>>
               /\ UNCHANGED <<errors, outcome, poll>>
          ELSE AttemptThrowsFrom(stk, r.err) /\ UNCHANGED zap
  /\ UNCHANGED <<isFullScan, options, phaseReqs, tasks, monitor, ajaxDown, daemon, jobs, disposed, session>>

\* lines 438-442: one attempt of 'Setting Auth Headers'; with no header the
\* body sends nothing and cannot fail
setAuthHeaders ==
  /\ pc = "authHeaders"
  /\ \E r \in Answers({"ok"}, "ok") :
       /\ (options.authHeaders = 0 => r.ok)
       /\ IF r.ok
          THEN /\ lastRetry' = RetryReturned(Top, "ok")
               /\ pc' = "contextInit"
               /\ stack' = <<NewFrame("Context Initialization", "contextInit")>>
               /\ UNCHANGED <<errors, outcome, poll>>
          ELSE AttemptThrows(r.err)
  /\ UNCHANGED <<isFullScan, options, phaseReqs, tasks, monitor, ajaxDown, daemon, zap, jobs, disposed, session>>

\* line 431: `scan-context-${Date.now()}`, computed once per performScan
contextName(now) == <<"scan-context-", ToString(now)>>

\* line 532: context.newContext(contextName), the first call of an attempt
newContext(stk, name) == [stk EXCEPT ![Len(stk)].contexts = Append(@, name)]

\* lines 531-558: the daemon calls of one 'Context Initialization' attempt, up
\* to the call of handleAuthentication
initializeContext ==
  /\ pc = "contextInit"
  /\ LET stk == newContext(stack, contextName(zapScanner.scanStartTime))
     IN \E r \in Answers({"ok"}, "ok") :
          IF r.ok
          THEN /\ pc' = "sessionConfig"
               /\ stack' = Append(stk, NewFrame("Session Configuration", "sessionConfig"))
               /\ lastRetry' = NoRetry
               /\ UNCHANGED <<errors, outcome, poll>>
          ELSE AttemptThrowsFrom(stk, r.err)
  /\ zap' = [zap EXCEPT !.contexts = @ \cup {contextName(zapScanner.scanStartTime)}]
  /\ UNCHANGED <<isFullScan, options, phaseReqs, tasks, monitor, ajaxDown, daemon, jobs, disposed, session>>

\* lines 506-521: one attempt of 'Session Configuration'
handleAuthentication ==
  /\ pc = "sessionConfig"
  /\ LET stk == nestedAttempt(stack)
     IN \E r \in Answers({"ok"}, "ok") :
          IF r.ok
          THEN /\ lastRetry' = [RetryReturned(Top, "ok") EXCEPT !.nested = nestedOf(stk)]
               /\ pc' = "verifyAuth"
               /\ stack' = SubSeq(stk, 1, Len(stk) - 1)
               /\ UNCHANGED <<errors, outcome, poll>>
          ELSE AttemptThrowsFrom(stk, r.err)
  /\ UNCHANGED <<isFullScan, options, phaseReqs, tasks, monitor, ajaxDown, daemon, zap, jobs, disposed, session>>

\* lines 491-504 and 523-527: a thrown request counts as not authenticated;
\* not authenticated throws inside the 'Context Initialization' attempt
\* Any answered request taken for an authenticated session.
isAuthenticated_AnyStatus(r) == r.ok

\* lines 493-503: statusCode < 400, and false when a request throws
isAuthenticated(r) == r.ok /\ r.value < 400

\* lines 523-527 and 558: the verification of one 'Context Initialization'
\* attempt; lastRetry keeps the status code that let the attempt return
verifyAuthentication ==
  /\ pc = "verifyAuth"
  /\ \E r \in Answers({200, 401}, 200) :
       IF isAuthenticated(r)
       THEN /\ lastRetry' = RetryReturned(Top, ToString(r.value))
            /\ pc' = "scanInit"
            /\ stack' = <<NewFrame("Scan Initialization", "scanInit")>>
            /\ zap' = [zap EXCEPT !.context = "initialized"]
            /\ UNCHANGED <<errors, outcome, poll>>
       ELSE /\ AttemptThrows(<<"Failed to establish authenticated session with target">>)
            /\ UNCHANGED zap
  /\ UNCHANGED <<isFullScan, options, phaseReqs, tasks, monitor, ajaxDown, daemon, jobs, disposed, session>>

\* line 588, core.newSession('', ''): the daemon opens a new session in place
\* of the current one, whose contexts go with it
newSession(context) == IF context = "none" THEN "none" ELSE "discarded"

\* lines 587-590: core.newSession of one 'Scan Initialization' attempt, then
\* the nested configureZapSettings
scanInitialization ==
  /\ pc = "scanInit"
  /\ \E r \in Answers({"ok"}, "ok") :
       IF r.ok
       THEN /\ pc' = "zapConfig"
            /\ stack' = Append(stack, NewFrame("ZAP Configuration", "zapConfig"))
            /\ lastRetry' = NoRetry
            /\ zap' = [zap EXCEPT !.context = newSession(@)]
            /\ UNCHANGED <<errors, outcome, poll>>
       ELSE AttemptThrows(r.err) /\ UNCHANGED zap
  /\ UNCHANGED <<isFullScan, options, phaseReqs, tasks, monitor, ajaxDown, daemon, jobs, disposed, session>>

\* lines 593-607: one spider.scan request; its reply is the id polled
spiderScanStart ==
  /\ pc = "spiderStart"
  /\ phaseReqs' = phaseReqs + 1
  /\ \E r \in Answers(ScanIds \cup {"url_not_found"}, "0") :
       IF r.ok
       THEN /\ lastRetry' = RetryReturned(Top, toString(r.value))
            /\ pc' = "poll"
            /\ stack' = <<>>
            /\ poll' = NewPoll("Spider Scan", timeoutSpider, toString(r.value))
            /\ jobs' = IF r.value \in ScanIds THEN [jobs EXCEPT !.spider = "running"]
                       ELSE jobs
            /\ UNCHANGED <<errors, outcome>>
       ELSE AttemptThrows(r.err) /\ UNCHANGED jobs
  /\ UNCHANGED <<isFullScan, options, tasks, monitor, ajaxDown, daemon, zap, disposed, session>>

----------------------------------------------------------------------------
(* waitForCompletion, lines 706-754, as called by waitForSpiderCompletion   *)
(* (lines 756-769) and waitForScanCompletion (lines 780-793)                *)

\* The daemon job an operation polls.  A job is "none" before its start
\* request is answered, then "running" until a status request is answered
\* with 100 ("finished") or a stop request is answered ("stopped").  A job
\* still runs as "queryFailed" when cleanup's status request for it threw, and
\* as "stopFailed" when its stop request did.
jobOf(operation) == IF operation = "Spider Scan" THEN "spider" ELSE "ascan"

StatusCheckName(operation) ==
  CASE operation = "Spider Scan" -> "Spider Scan Status Check"
    [] operation = "AJAX Spider" -> "AJAX Spider Status Check"
    [] OTHER -> "Active Scan Status Check"

\* A status that is no number taken for progress not yet complete.
isInvalidStatus_Ignored(operation, progress) == FALSE

\* lines 760-761 and 784-785: isNaN(progress) in the completion predicates of
\* the spider and of the active scan; the AJAX spider's has no such test
isInvalidStatus(operation, progress) ==
  operation # "AJAX Spider" /\ progress = NaN

\* lines 762 and 786
invalidStatusMessage(operation, status) ==
  IF operation = "Spider Scan" THEN <<"Invalid spider status:", status>>
  ELSE <<"Invalid scan status:", status>>

\* The duration the options allow the phase polled, in ms: maxScanDuration
\* is in seconds and is about the active scan.
allowed(p, opts) ==
  IF p.operation = "Active Scan" THEN opts.maxScanDuration * 1000 ELSE p.timeout

\* The clock reading Date.now() - startTime after d more ms.  The code only
\* tests it against the timeout, so it is kept no further than one past it,
\* and, short of the timeout, no further than one past the duration allowed.
Later(p, d, mark) ==
  IF p.elapsed + d > p.timeout THEN p.timeout + 1
  ELSE IF p.elapsed + d > mark THEN mark + 1
  ELSE p.elapsed + d

\* The timeout never found exceeded.
timedOut_Never(p) == FALSE

\* The timeout tested only while no progress is being made.
timedOut_OnlyWhenStale(p) == p.elapsed > p.timeout /\ p.staleCount > 0

\* line 719
timedOut(p) == p.elapsed > p.timeout

\* lines 718-722: the head of one iteration: the timeout test, then the 5 s
\* sleep, then the status check begins.  The time the iteration takes beyond
\* the sleep (the requests of the status check, its backoff sleeps, a held-up
\* process) is either nothing, or as long as the duration allowed, or as long
\* as the timeout.
waitForCompletion ==
  /\ pc = "poll"
  /\ lastRetry' = NoRetry
  /\ IF timedOut(poll)
     THEN throws(<<poll.operation, "timed out after",
                             ToString(poll.timeout \div 1000), "seconds">>)
     ELSE /\ poll.polls < MaxPolls
          /\ \E pause \in (IF daemon = "mock" THEN {0}
                           ELSE {0, allowed(poll, options), poll.timeout}) :
               poll' = [poll EXCEPT !.elapsed = Later(poll, pollInterval + pause,
                                                      allowed(poll, options)),
                                    !.polls = @ + 1]
          /\ stack' = <<NewFrame(StatusCheckName(poll.operation), "statusCheck")>>
          /\ pc' = "statusCheck"
          /\ UNCHANGED <<errors, outcome>>
  /\ UNCHANGED <<isFullScan, options, phaseReqs, tasks, monitor, ajaxDown, daemon, zap, jobs, disposed, session>>

\* The stale counter carried over when the value changes.
stallUpdate_NoReset(p, status) ==
  LET progress == parseInt(status)
  IN IF progress # NaN /\ progress = p.lastProgress
     THEN [p EXCEPT !.staleCount = @ + 1]
     ELSE [p EXCEPT !.staleCount = @ + 1, !.lastProgress = progress]

\* The stall threshold one poll early.
stalled_OneEarly(p, status) ==
  LET progress == parseInt(status)
  IN progress # NaN /\ progress = p.lastProgress
       /\ p.staleCount + 1 >= maxStaleChecks - 1

\* lines 728-740: the stall bookkeeping for a status string
stallUpdate(p, status) ==
  LET progress == parseInt(status)
  IN IF progress # NaN /\ progress = p.lastProgress
     THEN [p EXCEPT !.staleCount = @ + 1]
     ELSE [p EXCEPT !.staleCount = 0, !.lastProgress = progress]

\* The number of polls in a row, the one answered with status included, that
\* reported the same numeric value.
runAfter(p, status) ==
  IF p.runLen > 0 /\ parseInt(status) = p.lastProgress THEN p.runLen + 1 ELSE 1

\* line 730-732
stalled(p, status) ==
  LET progress == parseInt(status)
  IN progress # NaN /\ progress = p.lastProgress /\ p.staleCount + 1 >= maxStaleChecks

\* The phase taken for complete once it is half done.
isComplete_Halfway(progress) == progress >= 50

\* lines 764 and 788: the completion predicate of the spider and of the
\* active scan, on a numeric progress
isComplete(progress) == progress >= 100

\* line 774: the completion predicate of the AJAX spider
isAjaxComplete(status) == status # "running"

\* lines 724-751: one attempt of the status check and, on a reply, the stall
\* test and the completion predicate; every error is rethrown (lines 745-750)
checkStatus ==
  /\ pc = "statusCheck"
  /\ \E r \in Answers(StatusReplies(poll.operation, poll.scanId),
                       mockStatus(poll.operation, poll.polls)) :
       IF ~r.ok
       THEN /\ AttemptThrows(r.err)
            /\ UNCHANGED <<phaseReqs, tasks, jobs>>
       ELSE
         /\ lastRetry' = RetryReturned(Top, toString(r.value))
         /\ jobs' = IF r.value = "100"
                    THEN [jobs EXCEPT ![jobOf(poll.operation)] = "finished"]
                    ELSE jobs
         /\ IF stalled(poll, r.value)
            THEN /\ throws(<<poll.operation, "appears to be stalled at",
                                       r.value, "% for over 1 minute">>)
                 /\ UNCHANGED <<phaseReqs, tasks>>
            ELSE IF isInvalidStatus(poll.operation, parseInt(r.value))
            THEN /\ performScanCatch(
                      invalidStatusMessage(poll.operation, toString(r.value)))
                 /\ UNCHANGED <<phaseReqs, tasks>>
            ELSE IF ~(IF poll.operation = "AJAX Spider" THEN isAjaxComplete(r.value)
                      ELSE isComplete(parseInt(r.value)))
            THEN /\ pc' = "poll"
                 /\ stack' = <<>>
                 /\ poll' = [stallUpdate(poll, r.value) EXCEPT
                               !.runLen = runAfter(poll, r.value)]
                 /\ UNCHANGED <<errors, outcome, phaseReqs, tasks>>
            ELSE IF poll.operation = "Spider Scan"
            THEN \* line 607 returns; lines 610-631 begin
                 /\ pc' = "ascanStart"
                 /\ stack' = <<NewFrame("Active Scan Start", "ascanStart")>>
                 /\ poll' = IdlePoll
                 /\ phaseReqs' = 0
                 /\ UNCHANGED <<errors, outcome, tasks>>
            ELSE IF poll.operation = "AJAX Spider"
            THEN \* waitForAjaxSpiderCompletion returns
                 /\ pc' = "ajaxSpiderDone"
                 /\ stack' = <<>>
                 /\ poll' = IdlePoll
                 /\ UNCHANGED <<errors, outcome, phaseReqs, tasks>>
            ELSE \* line 633 returns; line 636 calls collectScanResults
                 /\ pc' = "collect"
                 /\ stack' = <<>>
                 /\ poll' = IdlePoll
                 /\ phaseReqs' = 0
                 /\ tasks' =
                      [alerts |-> [IdleTask EXCEPT !.state = "running",
                                     !.frame = NewFrame("Alert Collection", "")],
                       count |-> [IdleTask EXCEPT !.state = "running",
                                     !.frame = NewFrame("Request Count", "")]]
                 /\ UNCHANGED <<errors, outcome>>
  /\ UNCHANGED <<isFullScan, options, monitor, ajaxDown, daemon, zap, disposed, session>>

\* The timeout taken from the options.
activeScanTimeout_FromOptions(opts) == opts.maxScanDuration * 1000

\* line 791: this.timeouts.activeScan, whatever the options
activeScanTimeout(opts) == timeoutActiveScan

\* lines 610-633: one ascan.scan request; its reply is the id polled
activeScanStart ==
  /\ pc = "ascanStart"
  /\ phaseReqs' = phaseReqs + 1
  /\ zap' = [zap EXCEPT !.calls = @ \cup {scanCall(options)}]
  /\ \E r \in Answers(ScanIds \cup {"url_not_found"}, "0") :
       IF r.ok
       THEN /\ lastRetry' = RetryReturned(Top, toString(r.value))
            /\ pc' = "poll"
            /\ stack' = <<>>
            /\ poll' = NewPoll("Active Scan", activeScanTimeout(options),
                               toString(r.value))
            /\ jobs' = IF r.value \in ScanIds THEN [jobs EXCEPT !.ascan = "running"]
                       ELSE jobs
            /\ UNCHANGED <<errors, outcome>>
       ELSE AttemptThrows(r.err) /\ UNCHANGED jobs
  /\ UNCHANGED <<isFullScan, options, tasks, monitor, ajaxDown, daemon, disposed, session>>

----------------------------------------------------------------------------
(* collectScanResults, lines 648-694.  Promise.all runs two withRetry chains *)
(* side by side; it rejects with the first rejection, while the other chain  *)
(* runs on unobserved.                                                      *)

\* Alert lists the daemon may return.  An alert is its risk label and its
\* url; a url is the list of the names of its query parameters.
RECURSIVE AlertLists(_, _)
AlertLists(n, urls) ==
  IF n = 0 THEN {<<>>}
  ELSE AlertLists(n - 1, urls) \cup
       {Append(l, a) : l \in {m \in AlertLists(n - 1, urls) : Len(m) = n - 1},
                       a \in [risk : DaemonRiskLabels, url : urls]}

\* lines 377-398: a reply carrying a code other than "ok" is turned into an error
parseZapResponseMessage(operation, code) ==
  <<"Failed to parse ZAP response for", operation, "ZAP", operation, "failed:", code>>

\* A settled chain: its withRetry locals are gone.
Settled(t, state) == [t EXCEPT !.state = state, !.frame = NewFrame(t.frame.name, "")]

\* One attempt of a chain fails: the next attempt, or the chain rejects.
taskThrow(t, err) ==
  LET g == retryCatch(t.frame, err)
  IN IF retryLoopContinues(g.attempt) THEN [t EXCEPT !.frame = g]
     ELSE Settled(t, "rejected")

\* A rejection that is absorbed: collection goes on without the failed chain.
promiseAllRejects_Absorbed(msg) ==
  /\ errors' = Append(errors, [phase |-> "Result Collection", message |-> msg,
                                timestamp |-> 0])
  /\ UNCHANGED <<pc, stack, outcome, poll>>

\* The first rejection rejects Promise.all: executeScan's catch, then performScan's.
promiseAllRejects(msg) ==
  IF pc = "collect" THEN performScanCatch(msg)
  ELSE UNCHANGED <<pc, stack, errors, outcome, poll>>

\* lines 650-651: one core.alertsByContext request, then parseZapResponse
alertCollection ==
  /\ tasks.alerts.state = "running"
  /\ \E r \in Answers({"alerts", "illegal_parameter"}, "alerts") :
       IF ~r.ok
       THEN LET t == taskThrow(tasks.alerts, r.err)
            IN /\ tasks' = [tasks EXCEPT !.alerts = t]
               /\ lastRetry' = RetryFailed(tasks.alerts.frame, r.err)
               /\ IF t.state = "rejected"
                  THEN promiseAllRejects(retryFailureMessage(t.frame.name, r.err))
                  ELSE UNCHANGED <<pc, stack, errors, outcome, poll>>
       ELSE /\ lastRetry' = RetryReturned(tasks.alerts.frame, r.value)
            /\ IF r.value = "alerts"
               THEN /\ \E l \in (IF daemon = "mock" THEN {mockAlerts}
                               ELSE AlertLists(MaxAlerts, {PlainUrl})) :
                         tasks' = [tasks EXCEPT
                                     !.alerts = [Settled(@, "fulfilled") EXCEPT
                                                   !.alerts = l]]
                    /\ UNCHANGED <<pc, stack, errors, outcome, poll>>
               ELSE /\ tasks' = [tasks EXCEPT !.alerts = Settled(@, "rejected")]
                    /\ promiseAllRejects(
                         parseZapResponseMessage("Alert Collection", r.value))
  /\ UNCHANGED <<isFullScan, options, phaseReqs, monitor, ajaxDown, daemon, zap, jobs, disposed, session>>

\* lines 652-654: one core.numberOfMessages request, then parseZapResponse and
\* parseInt(count) || 0
requestCount ==
  /\ tasks.count.state = "running"
  /\ \E r \in Answers({"7", "many", "illegal_parameter"}, "7") :
       IF ~r.ok
       THEN LET t == taskThrow(tasks.count, r.err)
            IN /\ tasks' = [tasks EXCEPT !.count = t]
               /\ lastRetry' = RetryFailed(tasks.count.frame, r.err)
               /\ IF t.state = "rejected"
                  THEN promiseAllRejects(retryFailureMessage(t.frame.name, r.err))
                  ELSE UNCHANGED <<pc, stack, errors, outcome, poll>>
       ELSE /\ lastRetry' = RetryReturned(tasks.count.frame, r.value)
            /\ IF r.value # "illegal_parameter"
               THEN /\ tasks' = [tasks EXCEPT
                                   !.count = [Settled(@, "fulfilled") EXCEPT
                                     !.count = IF parseInt(r.value) = NaN THEN 0
                                               ELSE parseInt(r.value)]]
                    /\ UNCHANGED <<pc, stack, errors, outcome, poll>>
               ELSE /\ tasks' = [tasks EXCEPT !.count = Settled(@, "rejected")]
                    /\ promiseAllRejects(
                         parseZapResponseMessage("Request Count", r.value))
  /\ UNCHANGED <<isFullScan, options, phaseReqs, monitor, ajaxDown, daemon, zap, jobs, disposed, session>>

\* lines 657-693: both chains fulfilled; the result is returned through
\* executeScan (line 636) and performScan (line 448)
collectScanResults ==
  /\ pc = "collect"
  /\ tasks.alerts.state = "fulfilled"
  /\ tasks.count.state = "fulfilled"
  /\ outcome' = [kind |-> "returned", message |-> <<>>,
                 result |-> scanResult(tasks.alerts.alerts, tasks.count.count,
                                       isFullScan, errors)]
  /\ pc' = "gate"
  /\ lastRetry' = NoRetry
  /\ UNCHANGED <<isFullScan, options, stack, errors, phaseReqs, poll, tasks, monitor,
                 ajaxDown, daemon, zap, jobs, disposed, session>>

----------------------------------------------------------------------------
(* The monitoring fixture after performScan, monitoring.ts lines 246-283 *)

\* The gate firing only from the second High alert on.
\* The gate not asking whether it is configured.
highRiskGate_Always(opts, result) == result.stats.alertsByRisk["High"] > 0

\* monitoring.ts lines 269-272: both export calls are made before Promise.all
\* awaits either, and a failed export is caught and recorded (lines 272-278)
Exporters == {"prometheusExporter", "s3Exporter"}

highRiskGate_Second(opts, result) ==
  opts.failOnHighRisks /\ result.stats.alertsByRisk["High"] > 1

\* line 249
highRiskGate(opts, result) ==
  opts.failOnHighRisks /\ result.stats.alertsByRisk["High"] > 0

monitoring ==
  /\ pc = "gate"
  /\ pc' = "done"
  /\ monitor' =
       IF outcome.kind = "thrown" \/ highRiskGate(options, outcome.result)
       THEN [kind |-> "raised", exported |-> FALSE, exporters |-> {}]
       ELSE [kind |-> "returned", exported |-> TRUE, exporters |-> Exporters]
  /\ lastRetry' = NoRetry
  /\ UNCHANGED <<isFullScan, options, stack, errors, phaseReqs, poll, tasks, outcome,
                 ajaxDown, daemon, zap, jobs, disposed, session>>

----------------------------------------------------------------------------
(* cleanup, lines 795-822, run by dispose (lines 824-826) and by the          *)
(* beforeExit handler (lines 37-42) once the run is over                      *)

\* What the daemon answers a status request of cleanup for a job.
JobStatusReplies(job) ==
  IF daemon = "mock" THEN {Ok("100")}
  ELSE Replies(CASE job = "running" -> {"0", "50"}
                 [] job = "finished" -> {"100"}
                 [] OTHER -> {"does_not_exist"})

\* lines 798 and 804: spiderStatus !== '100'
needsStop(status) == status # "100"

\* lines 797-801 and 803-807: the status request for one job and, unless the
\* status is '100', the stop request.  threw: one of the requests threw.
cleanupJob(job, status, stop) ==
  IF ~status.ok
  THEN [job |-> IF job = "running" THEN "queryFailed" ELSE job, threw |-> TRUE]
  ELSE IF ~needsStop(status.value) THEN [job |-> job, threw |-> FALSE]
  ELSE IF ~stop.ok
  THEN [job |-> IF job = "running" THEN "stopFailed" ELSE job, threw |-> TRUE]
  ELSE [job |-> IF job = "running" THEN "stopped" ELSE job, threw |-> FALSE]

\* The spider job, then the active-scan job; a request that throws ends
\* cleanup (catch, lines 817-820).  ZAP_SAVE_SESSION is taken as unset.
cleanup ==
  /\ pc = "done"
  /\ disposed = "no"
  /\ \E s1 \in JobStatusReplies(jobs.spider), s2 \in JobStatusReplies(jobs.ascan),
        p1 \in Answers({"ok"}, "ok"), p2 \in Answers({"ok"}, "ok") :
       LET a == cleanupJob(jobs.spider, s1, p1)
           b == IF a.threw THEN [job |-> jobs.ascan, threw |-> TRUE]
                ELSE cleanupJob(jobs.ascan, s2, p2)
       IN /\ jobs' = [spider |-> a.job, ascan |-> b.job]
          /\ disposed' = IF b.threw THEN "threw" ELSE "completed"
  /\ lastRetry' = NoRetry
  /\ UNCHANGED <<pc, isFullScan, options, stack, errors, phaseReqs, poll, tasks,
                 outcome, monitor, ajaxDown, daemon, zap, session>>

----------------------------------------------------------------------------

Next ==
  \/ verifyZapConnection
  \/ configureZapSettings
  \/ setAuthHeaders
  \/ initializeContext
  \/ handleAuthentication
  \/ verifyAuthentication
  \/ scanInitialization
  \/ spiderScanStart
  \/ waitForCompletion
  \/ checkStatus
  \/ activeScanStart
  \/ alertCollection
  \/ requestCount
  \/ collectScanResults
  \/ monitoring
  \/ cleanup

Spec == Init /\ [][Next]_vars

----------------------------------------------------------------------------
(* The run under each request rate and thread count.  performScan is called  *)
(* with options of the caller's making (ZAPScanOptions, types/index.ts lines *)
(* 119-128) against a daemon that answers every request.                     *)

\* 0 stands for an absent number; rates around 1000 requests a second make
\* the delay 1 ms
ThrottleOptions ==
  [authHeaders : {0}, maxRequestsPerSecond : 0..MaxRate \cup {999, 1000, 1001},
   maxScanDuration : {3600}, failOnHighRisks : {FALSE}, threadCount : 0..MaxThreads]

ThrottleInit ==
  /\ pc = "verifyZapConnection"
  /\ daemon = "mock"
  /\ isFullScan \in BOOLEAN
  /\ options \in ThrottleOptions
  /\ stack = <<>>
  /\ errors = <<>>
  /\ phaseReqs = 0
  /\ poll = IdlePoll
  /\ tasks = [alerts |-> IdleTask, count |-> IdleTask]
  /\ outcome = NoOutcome
  /\ monitor = [kind |-> "running", exported |-> FALSE, exporters |-> {}]
  /\ lastRetry = NoRetry
  /\ ajaxDown = FALSE
  /\ jobs = [spider |-> "none", ascan |-> "none"]
  /\ disposed = "no"
  /\ zap = [calls |-> {}, context |-> "none", contexts |-> {}, targets |-> {}]
  /\ zapScanner = [targetUrl |-> "null", scanStartTime |-> 0]
  /\ runs = <<>>
  /\ testNo = 1

ThrottleSpec == ThrottleInit /\ [][Next]_vars

----------------------------------------------------------------------------
(* waitForAjaxSpiderCompletion (lines 771-778) called on its own: the polling *)
(* of waitForCompletion under a status that is a word, no number.  executeScan *)
(* never calls it.                                                            *)

AjaxInit ==
  /\ pc = "poll"
  /\ daemon = "live"
  /\ isFullScan = TRUE
  /\ options = TestOptions
  /\ stack = <<>>
  /\ errors = <<>>
  /\ phaseReqs = 0
  /\ poll = NewPoll("AJAX Spider", timeoutAjaxSpider, "")
  /\ tasks = [alerts |-> IdleTask, count |-> IdleTask]
  /\ outcome = NoOutcome
  /\ monitor = [kind |-> "running", exported |-> FALSE, exporters |-> {}]
  /\ lastRetry = NoRetry
  /\ ajaxDown = FALSE
  /\ jobs = [spider |-> "none", ascan |-> "none"]
  /\ disposed = "no"
  /\ zap = [calls |-> {}, context |-> "none", contexts |-> {}, targets |-> {}]
  /\ zapScanner = [targetUrl |-> "null", scanStartTime |-> 0]
  /\ runs = <<>>
  /\ testNo = 1

AjaxNext == waitForCompletion \/ checkStatus

AjaxSpec == AjaxInit /\ [][AjaxNext]_vars

----------------------------------------------------------------------------
(* collectScanResults (lines 648-694) from the point where both chains are   *)
(* fulfilled, under each errors list it may be handed.  The list is built by *)
(* errors.push with the time of the push as timestamp (lines 216-220 and     *)
(* 639-643), so its timestamps never decrease along the list.                *)

\* phase names of the phase handlers (lines 253, 272, 292) and of the catch
\* blocks
PhaseNames == {"Spider", "AJAX Spider", "Scan Execution"}

PhaseErrors ==
  [phase : PhaseNames, message : {<<"ECONNREFUSED">>, <<"timed out after">>},
   timestamp : {1, 2}]

RECURSIVE ErrorLists(_)
ErrorLists(n) ==
  IF n = 0 THEN {<<>>}
  ELSE ErrorLists(n - 1) \cup
       {Append(l, e) : l \in {m \in ErrorLists(n - 1) : Len(m) = n - 1},
                       e \in PhaseErrors}

InPushOrder(errs) ==
  \A i \in DOMAIN errs : i > 1 => errs[i - 1].timestamp <= errs[i].timestamp

ReportInit ==
  /\ pc = "collect"
  /\ daemon = "mock"
  /\ isFullScan \in BOOLEAN
  /\ options = TestOptions
  /\ stack = <<>>
  /\ errors \in {l \in ErrorLists(MaxErrors) : InPushOrder(l)}
  /\ phaseReqs = 0
  /\ poll = IdlePoll
  /\ tasks = [alerts |-> [IdleTask EXCEPT !.state = "fulfilled",
                                         !.frame = NewFrame("Alert Collection", ""),
                                         !.alerts = mockAlerts],
              count |-> [IdleTask EXCEPT !.state = "fulfilled",
                                        !.frame = NewFrame("Request Count", ""),
                                        !.count = 7]]
  /\ outcome = NoOutcome
  /\ monitor = [kind |-> "running", exported |-> FALSE, exporters |-> {}]
  /\ lastRetry = NoRetry
  /\ ajaxDown = FALSE
  /\ jobs = [spider |-> "finished", ascan |-> "finished"]
  /\ disposed = "no"
  /\ zap = [calls |-> configureCalls(TestOptions) \cup {scanCall(TestOptions)},
            context |-> "discarded",
            contexts |-> {contextName(0)}, targets |-> {}]
  /\ zapScanner = [targetUrl |-> "null", scanStartTime |-> 0]
  /\ runs = <<>>
  /\ testNo = 1

ReportNext == collectScanResults \/ monitoring \/ cleanup

ReportSpec == ReportInit /\ [][ReportNext]_vars

----------------------------------------------------------------------------
(* collectScanResults from the point where both chains are fulfilled, under  *)
(* each alert list of the daemon, the alerts' urls with and without query    *)
(* parameters of a sensitive name.                                           *)

Urls == {PlainUrl, <<"token">>, <<"id", "token", "page">>, <<"Token">>}

AlertInit ==
  /\ pc = "collect"
  /\ daemon = "mock"
  /\ isFullScan \in BOOLEAN
  /\ options = TestOptions
  /\ stack = <<>>
  /\ errors = <<>>
  /\ phaseReqs = 0
  /\ poll = IdlePoll
  /\ \E l \in AlertLists(MaxAlerts, Urls) :
       tasks = [alerts |-> [IdleTask EXCEPT !.state = "fulfilled",
                                          !.frame = NewFrame("Alert Collection", ""),
                                          !.alerts = l],
               count |-> [IdleTask EXCEPT !.state = "fulfilled",
                                         !.frame = NewFrame("Request Count", ""),
                                         !.count = 7]]
  /\ outcome = NoOutcome
  /\ monitor = [kind |-> "running", exported |-> FALSE, exporters |-> {}]
  /\ lastRetry = NoRetry
  /\ ajaxDown = FALSE
  /\ jobs = [spider |-> "finished", ascan |-> "finished"]
  /\ disposed = "no"
  /\ zap = [calls |-> configureCalls(TestOptions) \cup {scanCall(TestOptions)},
            context |-> "discarded",
            contexts |-> {contextName(0)}, targets |-> {}]
  /\ zapScanner = [targetUrl |-> "null", scanStartTime |-> 0]
  /\ runs = <<>>
  /\ testNo = 1

AlertSpec == AlertInit /\ [][ReportNext]_vars

----------------------------------------------------------------------------
(* waitForCompletion (lines 706-754) called with a timeout short enough for  *)
(* the polls it takes to be followed one by one to the end: the timeout is   *)
(* a parameter of the function.                                              *)

PollTimeouts == {0, pollInterval * (MaxPolls - 1)}

PollInit ==
  /\ pc = "poll"
  /\ daemon = "live"
  /\ isFullScan = FALSE
  /\ options = TestOptions
  /\ stack = <<>>
  /\ errors = <<>>
  /\ phaseReqs = 0
  /\ \E operation \in {"Spider Scan", "Active Scan", "AJAX Spider"},
        timeout \in PollTimeouts :
       poll = NewPoll(operation, timeout, IF operation = "AJAX Spider" THEN "" ELSE "0")
  /\ tasks = [alerts |-> IdleTask, count |-> IdleTask]
  /\ outcome = NoOutcome
  /\ monitor = [kind |-> "running", exported |-> FALSE, exporters |-> {}]
  /\ lastRetry = NoRetry
  /\ ajaxDown = FALSE
  /\ jobs = [spider |-> IF poll.operation = "AJAX Spider" THEN "none"
                        ELSE IF poll.operation = "Spider Scan" THEN "running"
                        ELSE "finished",
             ascan |-> IF poll.operation = "Active Scan" THEN "running" ELSE "none"]
  /\ disposed = "no"
  /\ zap = [calls |-> {}, context |-> "none", contexts |-> {}, targets |-> {}]
  /\ zapScanner = [targetUrl |-> "null", scanStartTime |-> 0]
  /\ runs = <<>>
  /\ testNo = 1

\* Every status check returns or throws, and every sleep ends.
PollSpec ==
  /\ PollInit
  /\ [][AjaxNext]_vars
  /\ WF_vars(waitForCompletion)
  /\ WF_vars(checkStatus)

----------------------------------------------------------------------------
(* addTargetToContext (lines 696-704), a public method that nothing in the   *)
(* repository calls, called here by the owner of the scanner at any point of *)
(* a performScan run up to the end of the context's initialization.          *)

\* origins of the pages under test
Origins == {"https://a.test", "https://b.test"}

\* line 698: `${urlObj.protocol}//${urlObj.hostname}${urlObj.pathname}.*`,
\* for a URL that is an origin: the pathname is '/'
targetPattern(url) == <<url, "/", ".*">>

\* lines 700-701: the name passed to includeInContext and setContextInScope
targetContext(now) == <<"scan-context">>

\* lines 696-704: every attempt of 'Add URL to Context' begins with
\* includeInContext for the same name and pattern; whether the call returns
\* or throws leaves nothing in the scanner.
addTargetToContext ==
  /\ pc \notin {"gate", "done"}
  /\ \E url \in Origins :
       zap' = [zap EXCEPT !.targets = @ \cup
                 {[context |-> targetContext(zapScanner.scanStartTime),
                   pattern |-> targetPattern(url)]}]
  /\ UNCHANGED <<pc, isFullScan, options, stack, errors, phaseReqs, poll, tasks, outcome, monitor, lastRetry, ajaxDown, daemon, jobs, disposed, session>>

ContextInit == Init /\ daemon = "live" /\ ~isFullScan /\ ~options.failOnHighRisks

ContextNext ==
  \/ verifyZapConnection
  \/ configureZapSettings
  \/ setAuthHeaders
  \/ initializeContext
  \/ handleAuthentication
  \/ verifyAuthentication
  \/ addTargetToContext

ContextSpec == ContextInit /\ [][ContextNext]_vars

----------------------------------------------------------------------------
(* The worker process across its tests.  Each test calls the monitoring      *)
(* fixture (monitoring.ts lines 196-286) for a page of some origin; the       *)
(* fixture creates the scanner on first use (lines 209-212) and awaits        *)
(* performScan on it (line 246).  A run is followed here from its start to    *)
(* its end only.                                                              *)

\* A new call begun while an earlier one has not returned.
awaited_NotAwaited(rs) == TRUE

\* The test bodies call 'await monitoring(...)' (tests/security.spec.ts line
\* 44) and the fixture awaits performScan (monitoring.ts line 246), and the
\* worker runs one test at a time: the next call is made when no run is in
\* progress.
awaited(rs) == \A i \in DOMAIN rs : rs[i].state # "running"

\* monitoring.ts line 188
NoScanner == [targetUrl |-> "null", scanStartTime |-> 0]

\* the worker process has been shut down
Discarded == 0

\* monitoring.ts lines 198 and 209-246 with zapScan.ts lines 33-34 and 429-432:
\* the scanner is created for the origin of the first call and kept;
\* performScan sets the instance's scanStartTime.
monitoringCall ==
  /\ testNo \in 1..MaxTests
  /\ Len(runs) < MaxRuns
  /\ awaited(runs)
  /\ \E baseUrl \in Origins :
       /\ zapScanner' =
            [targetUrl |-> IF zapScanner = NoScanner THEN baseUrl
                           ELSE zapScanner.targetUrl,
             scanStartTime |-> Len(runs) + 1]
       /\ runs' = Append(runs, [baseUrl |-> baseUrl, state |-> "running"])
  /\ UNCHANGED <<testNo, run>>

\* monitoring.ts lines 246-279: performScan returns and, unless the high-risk
\* gate throws, so does the call; the test goes on.
performScanReturns ==
  /\ testNo # Discarded
  /\ \E i \in DOMAIN runs :
       /\ runs[i].state = "running"
       /\ runs' = [runs EXCEPT ![i].state = "returned"]
  /\ testNo' \in {testNo, Discarded}
  /\ UNCHANGED <<zapScanner, run>>

\* monitoring.ts lines 280-283: performScan throws, the fixture rethrows and
\* the test, which does not catch, fails.  Playwright shuts the worker process
\* down after a failed test; the tests left run in another process.
performScanThrows ==
  /\ testNo # Discarded
  /\ \E i \in DOMAIN runs :
       /\ runs[i].state = "running"
       /\ runs' = [runs EXCEPT ![i].state = "thrown"]
  /\ testNo' = Discarded
  /\ UNCHANGED <<zapScanner, run>>

\* playwright.config.ts line 49: the test times out while its call is still
\* awaiting performScan; the test fails and the worker process is shut down.
testTimesOut ==
  /\ testNo \in 1..MaxTests
  /\ ~awaited(runs)
  /\ testNo' = Discarded
  /\ UNCHANGED <<zapScanner, runs, run>>

\* The test in progress ends after the calls it awaited; the next one begins.
testEnds ==
  /\ testNo \in 1..MaxTests
  /\ awaited(runs)
  /\ testNo' = testNo + 1
  /\ UNCHANGED <<zapScanner, runs, run>>

SessionInit == Init /\ daemon = "mock" /\ ~isFullScan

SessionNext ==
  \/ monitoringCall
  \/ performScanReturns
  \/ performScanThrows
  \/ testTimesOut
  \/ testEnds

SessionSpec == SessionInit /\ [][SessionNext]_vars

----------------------------------------------------------------------------
(* Properties *)

HasPhaseError(errs, phase) == \E i \in DOMAIN errs : errs[i].phase = phase

SumByRisk(byRisk) ==
  byRisk["High"] + byRisk["Medium"] + byRisk["Low"] + byRisk["Informational"]

Frames ==
  {stack[i] : i \in DOMAIN stack} \cup
  {tasks[c].frame : c \in {c \in {"alerts", "count"} : tasks[c].state = "running"}}

ActiveScanPhase ==
  \/ pc = "ascanStart"
  \/ (pc \in {"poll", "statusCheck"} /\ poll.operation = "Active Scan")

CollectionChains == {"Alert Collection", "Request Count"}

ConnectionCheckFailed ==
  outcome.kind = "thrown" /\ outcome.message[1] = "Failed to verify ZAP connection:"

\* C1: when the active-scan phase ends in any way other than completion (its
\* start failing on every attempt, or its polling ending in a timeout, a stall
\* or a status error), performScan throws an error carrying a result whose
\* status is 'failed', and that outcome never changes afterwards.
C1_ActiveScanFailureIsFatal ==
  [][ /\ (ActiveScanPhase /\ ~ActiveScanPhase' /\ pc' # "collect")
           => (outcome'.kind = "thrown" /\ outcome'.result.status = "failed")
      /\ (outcome.kind = "thrown" => outcome' = outcome) ]_vars

C1_Witness ==
  /\ outcome.kind = "thrown"
  /\ outcome.result.status = "failed"
  /\ Includes(outcome.message, "Active Scan")
  /\ Includes(outcome.message, "appears to be stalled at")

\* C2: in a full-mode scan against a daemon whose AJAX spider fails on every
\* start attempt, the result performScan returns lists a PhaseError whose
\* phase is 'AJAX Spider'.
C2_AjaxFailureRecorded ==
  (isFullScan /\ ajaxDown /\ outcome.kind = "returned")
    => HasPhaseError(outcome.result.errors, "AJAX Spider")

\* C3 as stated: once alert retrieval or request-count retrieval has failed on
\* all its attempts, performScan does not fail.
C3_CollectionFailureDegrades ==
  (lastRetry.kind = "threw" /\ lastRetry.name \in CollectionChains)
    => outcome.kind # "thrown"

\* C3 as amended: once alert retrieval or request-count retrieval has failed on
\* all its attempts, performScan has failed: it throws an error carrying a
\* result with status 'failed', no alerts, zeroed stats and the single
\* PhaseError 'Fatal Error'; no completed result is returned.
C3_CollectionFailureIsFatal ==
  (lastRetry.kind = "threw" /\ lastRetry.name \in CollectionChains)
    => /\ outcome.kind = "thrown"
       /\ outcome.result.status = "failed"
       /\ outcome.result.alerts = <<>>
       /\ outcome.result.stats = ZeroStats
       /\ Len(outcome.result.errors) = 1
       /\ outcome.result.errors[1].phase = "Fatal Error"

C3_Witness ==
  /\ lastRetry.kind = "threw"
  /\ lastRetry.name = "Alert Collection"
  /\ tasks.count.state = "fulfilled"
  /\ outcome.kind = "thrown"
  /\ Includes(outcome.message, "Alert Collection")

\* C4: in every result produced, the four counts of stats.alertsByRisk add up
\* to the number of alerts of the result.
C4_RiskCountsSumToAlerts ==
  outcome.kind # "none"
    => SumByRisk(outcome.result.stats.alertsByRisk) = Len(outcome.result.alerts)

\* C5: every result with status 'failed' has a non-empty errors list and
\* carries stats with the four risk counts.
C5_FailedResultHasErrors ==
  outcome.result.status = "failed"
    => /\ Len(outcome.result.errors) >= 1
       /\ DOMAIN outcome.result.stats.alertsByRisk = RiskKeys
       /\ \A k \in RiskKeys : outcome.result.stats.alertsByRisk[k] >= 0

C5_Witness ==
  /\ outcome.result.status = "failed"
  /\ HasPhaseError(outcome.result.errors, "Fatal Error")
  /\ HasPhaseError(errors, "Scan Execution")

\* C6 as stated: every error performScan throws carries an embedded partial
\* result with status 'failed'.
C6_ThrownCarriesResult ==
  outcome.kind = "thrown" => outcome.result.status = "failed"

\* C6 as amended: a finished performScan has exactly one of three outcomes: a
\* returned result with status 'completed' built from the daemon's replies; a
\* thrown 'Scan failed' error carrying a partial result with status 'failed',
\* for a failure at any step after the connection check; or, when the initial
\* connection check fails, a thrown 'Failed to verify ZAP connection' error
\* that carries no result.
C6_OutcomeOfEveryRun ==
  /\ (pc \in {"gate", "done"}) <=> (outcome.kind # "none")
  /\ outcome.kind \in {"none", "returned", "thrown"}
  /\ outcome.kind = "returned"
       => /\ outcome.result.status = "completed"
          /\ outcome.result.alerts = tasks.alerts.alerts
          /\ outcome.result.stats.requestCount = tasks.count.count
  /\ outcome.kind = "thrown"
       => IF ConnectionCheckFailed
          THEN outcome.result = NoResult /\ errors = <<>>
          ELSE /\ outcome.result.status = "failed"
               /\ outcome.message[1] = "Scan failed:"

C6_Witness ==
  /\ ConnectionCheckFailed
  /\ outcome.result = NoResult
  /\ pc = "done"

\* C7: when failOnHighRisks is set and the result performScan returned counts
\* at least one High alert, the monitoring call raises and exports nothing;
\* the call ends only after performScan has.
C7_HighRiskGateRaises ==
  /\ (pc = "done" /\ outcome.kind = "returned" /\ options.failOnHighRisks
        /\ outcome.result.stats.alertsByRisk["High"] > 0)
       => (monitor.kind = "raised" /\ ~monitor.exported)
  /\ monitor.kind # "running" => outcome.kind # "none"

C7_Witness ==
  /\ pc = "done"
  /\ outcome.kind = "returned"
  /\ outcome.result.status = "completed"
  /\ options.failOnHighRisks
  /\ outcome.result.stats.alertsByRisk["High"] = 1
  /\ monitor.kind = "raised"

\* C8: no withRetry calls its operation more than scanRetries times, one that
\* gives up has called it exactly scanRetries times, and no phase sends more
\* than scanRetries start requests.
C8_ExactlyMaxAttempts ==
  /\ \A f \in Frames : f.attempt <= scanRetries
  /\ lastRetry.calls <= scanRetries
  /\ lastRetry.kind = "threw" => lastRetry.calls = scanRetries
  /\ phaseReqs <= scanRetries

C8_Witness ==
  /\ lastRetry.kind = "threw"
  /\ lastRetry.name = "Spider Scan Start"
  /\ lastRetry.calls = scanRetries
  /\ phaseReqs = scanRetries

\* C9: withRetry gives up only at its scanRetries-th failed call; a call that
\* succeeds ends the withRetry at once, whatever came before: its frame is
\* gone, the value is the one used (the scan id polled), and no 'failed
\* after' error of that withRetry is thrown.
C9_SuccessEndsRetry ==
  /\ lastRetry.kind = "threw" => lastRetry.calls >= scanRetries
  /\ lastRetry.kind = "returned"
       => /\ \A f \in Frames : f.name # lastRetry.name
          /\ lastRetry.message = <<>>
          /\ ~(Includes(outcome.message, lastRetry.name)
                 /\ Includes(outcome.message, "failed after"))
          /\ (lastRetry.name \in {"Spider Scan Start", "Active Scan Start"}
                => (pc = "poll" /\ poll.scanId = lastRetry.value))

C9_Witness ==
  /\ lastRetry.kind = "returned"
  /\ lastRetry.name = "Active Scan Start"
  /\ lastRetry.calls = scanRetries
  /\ poll.scanId = lastRetry.value
  /\ outcome.kind = "none"

\* C10: the error withRetry throws when it gives up names the label, the
\* attempt count and the last underlying error; the error performScan throws
\* after three failed spider starts contains 'Spider Scan Start' and 3.
C10_FailureMessage ==
  lastRetry.kind = "threw"
    => /\ Includes(lastRetry.message, lastRetry.name)
       /\ Includes(lastRetry.message, "3")
       /\ SubSeq(lastRetry.message, Len(lastRetry.message) - Len(lastRetry.error) + 1,
                 Len(lastRetry.message)) = lastRetry.error
       /\ lastRetry.error # <<>>
       /\ (lastRetry.name = "Spider Scan Start"
             => /\ outcome.kind = "thrown"
                /\ Includes(outcome.message, "Spider Scan Start")
                /\ Includes(outcome.message, "3"))

C10_Witness ==
  /\ lastRetry.kind = "threw"
  /\ lastRetry.name = "Spider Scan Start"
  /\ lastRetry.error = <<"ECONNREFUSED">>
  /\ outcome.kind = "thrown"
  /\ Includes(outcome.message, "ECONNREFUSED")

StatusCheckNames == {"Spider Scan Status Check", "Active Scan Status Check"}

\* The step is a status check answered with a numeric value below 100.
ProgressReported ==
  /\ pc = "statusCheck"
  /\ lastRetry'.kind = "returned"
  /\ parseInt(lastRetry'.value) # NaN
  /\ parseInt(lastRetry'.value) < 100

\* The step throws the stall error out of performScan.
StallRaised ==
  /\ outcome.kind = "none"
  /\ outcome'.kind = "thrown"
  /\ Includes(outcome'.message, "appears to be stalled at")

\* The poll answered by the step is the n-th in a row reporting its value.
RunReaches(n) ==
  ProgressReported /\ runAfter(poll, lastRetry'.value) = n

\* Every poll of the waitForCompletion in progress so far reported 0, the
\* value lastProgress starts with.
ZeroSinceStart ==
  poll.lastProgress = 0 /\ poll.runLen = poll.polls - 1

\* C11 as stated: the poll that is the 12th in a row to report the same
\* numeric value below 100 raises the stall error.
C11_StallAtTwelfthEqualPoll ==
  [][ RunReaches(maxStaleChecks) => StallRaised ]_vars

\* C11 as amended: the stall error is raised at the poll at which the reported
\* value has equalled the progress recorded before it for the 12th time in a
\* row.  That is the 13th poll in a row reporting the value; it is the 12th
\* when the value is 0 and every poll since polling began reported 0, because
\* the recorded progress starts at 0.  No run of equal values gets longer.
C11_StallAfterTwelveUnchanged ==
  [][ /\ RunReaches(maxStaleChecks + 1) => StallRaised
      /\ (RunReaches(maxStaleChecks) /\ ZeroSinceStart) => StallRaised
      /\ (RunReaches(maxStaleChecks) /\ ~ZeroSinceStart)
           => (~StallRaised /\ pc' = "poll" /\ poll'.runLen = maxStaleChecks)
      /\ poll'.runLen <= maxStaleChecks ]_vars

C11_Witness ==
  /\ outcome.kind = "thrown"
  /\ Includes(outcome.message, "Spider Scan")
  /\ Includes(outcome.message, "appears to be stalled at")
  /\ Includes(outcome.message, "50")

\* C12: the stall error is raised only by a poll that is at least the 12th in
\* a row to report the same numeric value, and a poll reporting a numeric
\* value other than the one recorded sets the stale counter to zero and polling
\* goes on.
C12_NoStallBeforeTwelve ==
  [][ /\ StallRaised
           => /\ ProgressReported
              /\ runAfter(poll, lastRetry'.value) >= maxStaleChecks
      /\ (ProgressReported /\ parseInt(lastRetry'.value) # poll.lastProgress)
           => (pc' = "poll" /\ poll'.staleCount = 0 /\ outcome' = outcome) ]_vars

C12_Witness ==
  /\ pc = "poll"
  /\ outcome.kind = "none"
  /\ poll.polls = maxStaleChecks + 1
  /\ poll.lastProgress = 50
  /\ poll.staleCount = 0
  /\ poll.runLen = 1

\* C13: whenever an iteration of waitForCompletion begins with more time
\* elapsed since polling started than the timeout, it raises the timeout error
\* of its operation, whatever the progress reported so far (also when every
\* poll reported a new value and the stale counter is 0); no status check is
\* begun then.
C13_TimeoutRaised ==
  [][ /\ (pc = "poll" /\ poll.elapsed > poll.timeout)
           => /\ outcome'.kind = "thrown"
              /\ Includes(outcome'.message, poll.operation)
              /\ Includes(outcome'.message, "timed out after")
              /\ Includes(outcome'.message, ToString(poll.timeout \div 1000))
      /\ (pc = "poll" /\ pc' = "statusCheck") => poll.elapsed <= poll.timeout ]_vars

C13_Witness ==
  /\ outcome.kind = "thrown"
  /\ Includes(outcome.message, "Active Scan")
  /\ Includes(outcome.message, "timed out after")
  /\ Includes(outcome.message, "14400")

\* C14: a status check that fails (the request erroring on every attempt of
\* its withRetry) does not end waitForCompletion: polling goes on and
\* performScan has not failed.
C14_StatusErrorKeepsPolling ==
  (lastRetry.kind = "threw" /\ lastRetry.name \in StatusCheckNames)
    => (pc = "poll" /\ outcome.kind = "none")

\* C15: against the mock daemon of the end-to-end test (every request
\* answered, spider progress 0, 50, 100, active-scan progress 0, 100, two
\* alerts Medium and Low) and with the test's options, performScan does not
\* fail, and the result it returns has status 'completed', the risk counts
\* High 0, Medium 1, Low 1, Informational 0 and an empty errors list.
C15_EndToEnd ==
  daemon = "mock"
    => /\ outcome.kind # "thrown"
       /\ outcome.kind = "returned"
            => /\ outcome.result.status = "completed"
               /\ outcome.result.stats.alertsByRisk =
                    [High |-> 0, Medium |-> 1, Low |-> 1, Informational |-> 0]
               /\ outcome.result.errors = <<>>
               /\ outcome.result.alerts = mockAlerts
       /\ pc = "done" => (outcome.kind = "returned" /\ monitor.kind = "returned")

C15_Witness ==
  /\ daemon = "mock"
  /\ options = TestOptions
  /\ pc = "done"
  /\ outcome.kind = "returned"
  /\ outcome.result.status = "completed"
  /\ outcome.result.stats.alertsByRisk["Medium"] = 1

AuthenticationFailure == <<"Failed to establish authenticated session with target">>

\* A step in which the authentication verification fails.
VerificationFails ==
  pc = "verifyAuth" /\ lastRetry'.kind \in {"retry", "threw"}

\* Start requests are sent from inside executeScan only, and executeScan is
\* entered only by a verification that returned a status below 400.
StartOnlyAfterVerification ==
  /\ (~InExecuteScan /\ InExecuteScan')
       => /\ pc = "verifyAuth"
          /\ lastRetry'.kind = "returned"
          /\ lastRetry'.name = "Context Initialization"
          /\ lastRetry'.value = "200"
  /\ phaseReqs' > phaseReqs => InExecuteScan

\* C16 as stated: a verification that errors or gets a status of 400 or more
\* aborts the scan, performScan ending in failure; and a spider or active-scan
\* start request is sent only after a verification that got a non-error status.
C16_VerificationFailureAborts ==
  [][ /\ VerificationFails
           => (outcome'.kind = "thrown" /\ outcome'.result.status = "failed")
      /\ StartOnlyAfterVerification ]_vars

\* C16 as amended: a verification that errors or gets a status of 400 or more
\* fails the attempt of 'Context Initialization' it belongs to; the first and
\* the second attempt are followed by another one, from the start of context
\* initialisation, and the third aborts the scan: performScan throws an error
\* naming the failed authentication and carrying a result with status
\* 'failed'.  A spider or active-scan start request is sent only after a
\* verification that got a non-error status.
C16_VerificationFailureAbortsAfterRetries ==
  [][ /\ VerificationFails
           => /\ lastRetry'.name = "Context Initialization"
              /\ lastRetry'.error = AuthenticationFailure
              /\ IF lastRetry'.calls < scanRetries
                 THEN pc' = "contextInit" /\ outcome' = outcome
                 ELSE /\ outcome'.kind = "thrown"
                      /\ outcome'.result.status = "failed"
                      /\ Includes(outcome'.message, AuthenticationFailure[1])
      /\ StartOnlyAfterVerification ]_vars

C16_Witness ==
  /\ lastRetry.kind = "threw"
  /\ lastRetry.name = "Context Initialization"
  /\ lastRetry.error = AuthenticationFailure
  /\ outcome.kind = "thrown"
  /\ outcome.result.status = "failed"

\* The phases of executeScan in the order of the code.
PhaseRank ==
  CASE pc = "spiderStart" -> 1
    [] pc \in {"poll", "statusCheck"} /\ poll.operation = "Spider Scan" -> 2
    [] pc = "ascanStart" -> 3
    [] pc \in {"poll", "statusCheck"} /\ poll.operation = "Active Scan" -> 4
    [] pc = "collect" -> 5
    [] pc \in {"gate", "done"} -> 6
    [] OTHER -> 0

\* The step is a status check of the operation answered with a progress of
\* 100 or more.
CompletionObserved(operation) ==
  /\ pc = "statusCheck"
  /\ poll.operation = operation
  /\ lastRetry'.kind = "returned"
  /\ lastRetry'.name = StatusCheckName(operation)
  /\ parseInt(lastRetry'.value) # NaN
  /\ parseInt(lastRetry'.value) >= 100

\* The step is a start request that the daemon answered with a scan id.
StartSucceeds ==
  /\ lastRetry'.kind = "returned"
  /\ lastRetry'.name \in {"Spider Scan Start", "Active Scan Start"}

\* C17: the phases of one performScan run follow each other and never go
\* back: the active-scan start is entered only by a spider status check that
\* observed a progress of 100 or more, result collection only by such a status
\* check of the active scan; start requests are sent in the start phases only,
\* collection requests in collection only; and a start that succeeded moves to
\* the polling of its phase, so no phase is started successfully twice.
C17_PhasesInSequence ==
  [][ /\ PhaseRank' >= PhaseRank
      /\ (pc # "ascanStart" /\ pc' = "ascanStart") => CompletionObserved("Spider Scan")
      /\ (pc # "collect" /\ pc' = "collect") => CompletionObserved("Active Scan")
      /\ phaseReqs' > phaseReqs => pc \in {"spiderStart", "ascanStart"}
      /\ tasks' # tasks => (pc = "collect" \/ pc' = "collect" \/ PhaseRank = 6)
      /\ StartSucceeds
           => /\ PhaseRank' = PhaseRank + 1
              /\ pc' = "poll"
              /\ poll'.polls = 0 ]_vars

C17_Witness ==
  /\ pc = "collect"
  /\ lastRetry.kind = "returned"
  /\ lastRetry.name = "Active Scan Status Check"
  /\ lastRetry.value = "100"
  /\ tasks.alerts.state = "running"
  /\ tasks.count.state = "running"

\* Control points inside handleAjaxSpiderPhase (lines 267-284): its start
\* request and its polling.  executeScan has no call of it, so the run has
\* no step that leads to them.
AjaxSpiderPhase == pc \in {"ajaxSpiderStart", "ajaxSpiderPoll"}

\* C18: in a full-mode scan the active-scan start is reached from the AJAX
\* spider phase, which follows the completion of the spider; in a quick-mode
\* scan the run is never in the AJAX spider phase.
C18_AjaxSpiderInFullModeOnly ==
  [][ /\ (isFullScan /\ pc # "ascanStart" /\ pc' = "ascanStart") => AjaxSpiderPhase
      /\ (isFullScan /\ CompletionObserved("Spider Scan")) => AjaxSpiderPhase'
      /\ ~isFullScan => ~AjaxSpiderPhase' ]_vars

\* C19: once cleanup has run, every job the run started and left running has
\* been queried and, found running, been sent a stop request: none is still
\* "running", the state of a job cleanup sent nothing to.  This holds for the
\* active-scan job also when a request for the spider job failed.
C19_NoJobLeftRunning ==
  disposed # "no" => (jobs.spider # "running" /\ jobs.ascan # "running")

RunsInProgress == {i \in DOMAIN runs : runs[i].state = "running"}

C21_ErrorResponseNeverAScanId ==
  pc \in {"poll", "statusCheck"} => poll.scanId \in ScanIds

\* C22: PhaseErrors are accumulated and never discarded: once performScan has
\* ended, every entry recorded in the errors list during the run is an entry
\* of the errors list of the result, the entry recorded for the phase that
\* failed included.
C22_RecordedErrorsInResult ==
  outcome.kind # "none" =>
    \A i \in DOMAIN errors :
      \E j \in DOMAIN outcome.result.errors : outcome.result.errors[j] = errors[i]

\* The rate and the thread count the options ask for, defaults applied.
RequestedRate ==
  IF options.maxRequestsPerSecond # 0 THEN options.maxRequestsPerSecond ELSE 10

RequestedThreads == IF options.threadCount # 0 THEN options.threadCount ELSE 4

ThreadCalls == {c \in zap.calls : c.threads # 0}
DelayCalls == {c \in zap.calls : c.delay # 0}

\* C23: every delay sent to the daemon is ceil(1000 / rate), rate being
\* maxRequestsPerSecond or 10 when absent: the least number of milliseconds
\* whose product with the rate is at least 1000.  Every thread count sent to
\* the daemon is min(requested or 4, 6), hence never more than 6.
C23_DelayAndThreadsBounded ==
  /\ \A c \in DelayCalls :
       /\ c.delay * RequestedRate >= 1000
       /\ (c.delay - 1) * RequestedRate < 1000
  /\ \A c \in ThreadCalls :
       /\ c.threads <= 6
       /\ c.threads <= RequestedThreads
       /\ c.threads \in {6, RequestedThreads}

\* A run asked for 8 threads at 3 requests a second has made every call:
\* the daemon got 6 threads and 334 ms.
C23_Witness ==
  /\ pc = "done"
  /\ options.threadCount = 8
  /\ options.maxRequestsPerSecond = 3
  /\ Cardinality(zap.calls) = 5
  /\ \A c \in ThreadCalls : c.threads = 6
  /\ \A c \in DelayCalls : c.delay = 334

RECURSIVE Pow2(_)
Pow2(n) == IF n = 0 THEN 1 ELSE 2 * Pow2(n - 1)

\* The network errors among the first n failed attempts of a withRetry.
NetworkFailures(f, n) ==
  Cardinality({i \in 1..n : f.failures[i] = "network"})

AllNetwork(f) == \A i \in DOMAIN f.failures : f.failures[i] = "network"

\* C24: in a withRetry whose failed attempts so far were all network errors,
\* the delay slept between attempt i and attempt i+1 is at least
\* 5000 * 2^(i-1) ms and no shorter than the delay slept before it.
C24_BackoffNonDecreasing ==
  \A f \in Frames :
    AllNetwork(f) =>
      \A i \in DOMAIN f.slept :
        /\ f.slept[i] >= scanRetryDelay * Pow2(i - 1)
        /\ (i > 1 => f.slept[i] >= f.slept[i - 1])

\* A withRetry about to make its third attempt after two network errors.
C24_Witness ==
  \E f \in Frames :
    /\ f.failures = <<"network", "network">>
    /\ f.attempt = 3
    /\ Len(f.slept) = 2
    /\ f.slept[2] > f.slept[1]

\* C25: the delay is doubled on each failure classified as a network error,
\* and a failure that is no network error is followed by a sleep of exactly
\* the base delay of 5000 ms, whatever the failures before it were.
C25_OperationErrorSleepsBaseDelay ==
  \A f \in Frames :
    \A i \in DOMAIN f.slept :
      f.slept[i] = IF f.failures[i] = "network"
                   THEN 2 * (IF i = 1 THEN scanRetryDelay ELSE f.slept[i - 1])
                   ELSE scanRetryDelay

\* C25, amended: the delay starts at 5000 ms, is doubled by each failure
\* classified as a network error and is left as it is by any other failure:
\* the sleep after the i-th failed attempt lasts 5000 * 2^n ms, n being the
\* number of network errors among the first i failures.
C25_DelayDoublesPerNetworkError ==
  \A f \in Frames :
    \A i \in DOMAIN f.slept :
      f.slept[i] = scanRetryDelay * Pow2(NetworkFailures(f, i))

\* A network error, then an error that is none: both sleeps last 10000 ms.
C25_Witness ==
  \E f \in Frames :
    /\ f.failures = <<"network", "operation">>
    /\ f.slept = <<2 * scanRetryDelay, 2 * scanRetryDelay>>

AjaxSpiderPolling == pc \in {"poll", "statusCheck"} /\ poll.operation = "AJAX Spider"

\* C26: under a status that is a word (the AJAX spider's), polling returns at
\* the first poll whose status is not 'running', and a poll answered
\* 'running' goes on to the next poll with nothing counted towards a stall,
\* however many such polls came before it: no stall error is ever raised, and
\* polling whose status requests are answered ends abnormally by the timeout
\* only.
C26_CategoricalStatusNeverStalls ==
  [][ AjaxSpiderPolling =>
        /\ lastRetry'.kind = "returned" =>
              IF lastRetry'.value = "running"
              THEN pc' = "poll" /\ poll'.staleCount = 0
              ELSE pc' = "ajaxSpiderDone"
        /\ pc' = "ajaxSpiderThrew" =>
              /\ ~Includes(errors'[Len(errors')].message, "appears to be stalled at")
              /\ \/ lastRetry'.kind = "threw"
                 \/ Includes(errors'[Len(errors')].message, "timed out after") ]_vars

\* Fourteen polls in a row were answered 'running' and the next one is due.
C26_Witness ==
  /\ pc = "poll"
  /\ poll.operation = "AJAX Spider"
  /\ poll.runLen = MaxPolls
  /\ poll.runLen > maxStaleChecks
  /\ errors = <<>>

\* C27: the daemon session is created and the rate and thread configuration
\* applied before the scan context is initialized: no new daemon session is
\* created after the context has been initialized and authenticated, so that
\* context is the one in force when the spider starts.
C27_NoSessionAfterContext ==
  /\ zap.context # "discarded"
  /\ (pc = "spiderStart" => zap.context = "initialized")

ChainOf(name) == IF name = "Alert Collection" THEN "alerts" ELSE "count"

\* C28: an error response of the daemon is retryable: when the alert request
\* or the request-count request is answered with a code other than 'ok' on
\* an attempt before the third, the request is issued again, and the failure
\* surfaces only after three attempts.
C28_ErrorResponseRetried ==
  ( /\ lastRetry.name \in CollectionChains
    /\ lastRetry.kind = "returned"
    /\ lastRetry.value \in ErrorCodes
    /\ lastRetry.calls < scanRetries )
  => tasks[ChainOf(lastRetry.name)].state = "running"

ActiveScanPollDue == pc = "poll" /\ poll.operation = "Active Scan"

\* C29: active-scan polling uses options.maxScanDuration as its timeout: an
\* iteration of the polling that begins more than maxScanDuration seconds
\* after the polling began raises the timeout error.
C29_TimeoutIsMaxScanDuration ==
  [][ (ActiveScanPollDue /\ poll.elapsed > options.maxScanDuration * 1000)
        => /\ outcome'.kind = "thrown"
           /\ Includes(outcome'.message, "timed out after") ]_vars

\* C29, amended: active-scan polling uses the fixed timeout of 14400 s,
\* whatever options.maxScanDuration is: an iteration that begins more than
\* 14400000 ms after the polling began raises 'Active Scan timed out after
\* 14400 seconds', and an iteration that begins earlier goes on to the status
\* check.  maxScanDuration is handed to the daemon as the maxDuration of the
\* ascan.scan request.
C29_TimeoutIsFixed ==
  [][ /\ ActiveScanPollDue =>
           IF poll.elapsed > timeoutActiveScan
           THEN /\ outcome'.kind = "thrown"
                /\ Includes(outcome'.message, "timed out after")
                /\ Includes(outcome'.message, "14400")
           ELSE pc' = "statusCheck" /\ outcome' = outcome
      /\ \A c \in zap'.calls :
           c.call = "ascan.scan" => c.maxDuration = options.maxScanDuration ]_vars

\* A status check of the active scan begun later than maxScanDuration allows
\* and before the timeout.
C29_Witness ==
  /\ pc = "statusCheck"
  /\ poll.operation = "Active Scan"
  /\ poll.elapsed > options.maxScanDuration * 1000
  /\ poll.elapsed <= timeoutActiveScan
  /\ outcome.kind = "none"

\* The step is an iteration of spider or active-scan polling that finds the
\* timeout exceeded ...
TimeoutFound ==
  /\ pc = "poll"
  /\ poll.operation \in {"Spider Scan", "Active Scan"}
  /\ poll.elapsed > poll.timeout

\* ... or the status check whose reply equals the progress recorded for the
\* twelfth time in a row.
StallFound ==
  /\ ProgressReported
  /\ poll.operation \in {"Spider Scan", "Active Scan"}
  /\ parseInt(lastRetry'.value) = poll.lastProgress
  /\ poll.staleCount + 1 = maxStaleChecks

\* performScan has thrown an error that carries the failed result of the
\* error err and nothing else.
FailedWith(o, fragment) ==
  /\ o.kind = "thrown"
  /\ Includes(o.message, fragment)
  /\ o.result.status = "failed"
  /\ o.result.alerts = <<>>
  /\ Len(o.result.errors) = 1
  /\ Includes(o.result.errors[1].message, fragment)

\* C30: a stall is treated like a phase timeout: either one, during spider or
\* active-scan polling, ends performScan at that step with an error carrying a
\* result of status 'failed'; no later phase is started and the outcome never
\* becomes a completed result.
C30_StallFatalLikeTimeout ==
  [][ /\ TimeoutFound => (FailedWith(outcome', "timed out after") /\ pc' = "gate")
      /\ StallFound =>
           (FailedWith(outcome', "appears to be stalled at") /\ pc' = "gate")
      /\ outcome.kind = "thrown" =>
           /\ outcome' = outcome
           /\ pc' \in {"gate", "done"}
           /\ phaseReqs' = phaseReqs
           /\ poll' = IdlePoll ]_vars

\* The active scan stalled, and the monitoring call has ended with an error.
C30_Witness ==
  /\ pc = "done"
  /\ monitor.kind = "raised"
  /\ FailedWith(outcome, "appears to be stalled at")
  /\ Includes(outcome.message, "Active Scan")
  /\ jobs.spider = "finished"

\* The errors of one phase, in the order of the list.
ErrorsOfPhase(errs, phase) == SelectSeq(errs, LAMBDA e : e.phase = phase)

ReportedPhases(report) == {report[i].phase : i \in DOMAIN report}

DaemonAlerts == tasks.alerts.alerts

AlertChainStep == tasks.alerts.state = "running" /\ tasks'.alerts # tasks.alerts
CountChainStep == tasks.count.state = "running" /\ tasks'.count # tasks.count

KnownRisks(alerts) == \A i \in DOMAIN alerts : alerts[i].risk \in RiskKeys

\* C33: the alert retrieval and the request-count retrieval run side by side
\* and independently: a step of one chain (a request, a retry) leaves the
\* other chain as it is, whichever chain is ahead, and the result returned
\* is made of the value each chain ended with alone: the daemon's alerts in
\* their order, the count of these alerts per risk, and the request count.
C33_ChainsIndependent ==
  [][ /\ AlertChainStep => tasks'.count = tasks.count
      /\ CountChainStep => tasks'.alerts = tasks.alerts
      /\ (outcome.kind = "none" /\ outcome'.kind = "returned") =>
           /\ tasks.alerts.state = "fulfilled" /\ tasks.count.state = "fulfilled"
           /\ Len(outcome'.result.alerts) = Len(DaemonAlerts)
           /\ \A i \in DOMAIN DaemonAlerts :
                outcome'.result.alerts[i].risk = DaemonAlerts[i].risk
           /\ outcome'.result.stats.requestCount = tasks.count.count
           /\ KnownRisks(DaemonAlerts) =>
                \A k \in RiskKeys :
                  outcome'.result.stats.alertsByRisk[k] =
                    Cardinality({i \in DOMAIN DaemonAlerts : DaemonAlerts[i].risk = k})
    ]_vars

\* The request-count chain has ended with 7 while the alert chain, after two
\* failed attempts, is at its third.
C33_Witness ==
  /\ pc = "collect"
  /\ tasks.count.state = "fulfilled"
  /\ tasks.count.count = 7
  /\ tasks.alerts.state = "running"
  /\ tasks.alerts.frame.attempt = scanRetries

\* C34: every result performScan returns has status 'completed', an empty
\* errors list and the report 'No errors occurred during the scan.'; a run
\* that recorded an error in its errors list returns no result.
C34_ReturnedResultHasNoErrors ==
  /\ outcome.kind = "returned" =>
       /\ outcome.result.status = "completed"
       /\ outcome.result.errors = <<>>
       /\ outcome.result.errorReport = NoErrorsReport
  /\ errors # <<>> => outcome.kind = "thrown"

\* A quick scan of a live daemon has returned a result with one High alert,
\* and the call has ended.
C34_Witness ==
  /\ pc = "done"
  /\ daemon = "live"
  /\ outcome.kind = "returned"
  /\ outcome.result.scanType = "quick"
  /\ Len(outcome.result.alerts) = 1
  /\ outcome.result.stats.alertsByRisk["High"] = 1
  /\ errors = <<>>

Polling == pc \in {"poll", "statusCheck"}

\* C35: waitForCompletion terminates: when every status check returns or
\* throws and the clock advances with every sleep, the invocation returns or
\* raises in the end, whatever the status values are, also when the progress
\* changes at every poll and stays below 100.
C35_PollingTerminates == <>(~Polling)

\* Fourteen polls of progress that kept changing below 100; the next
\* iteration finds the timeout exceeded.
C35_Witness ==
  /\ pc = "poll"
  /\ poll.operation = "Spider Scan"
  /\ poll.polls = MaxPolls
  /\ poll.runLen = 1
  /\ poll.lastProgress = 50
  /\ poll.elapsed > poll.timeout

\* C36: nested retries multiply and stay bounded: within one performScan
\* context.newContext is issued at most scanRetries times, always with the
\* name performScan computed, and the 'Session Configuration' body and the
\* 'ZAP Configuration' body inside 'Scan Initialization' are each attempted
\* at most scanRetries * scanRetries times.
C36_NestedRetriesBounded ==
  /\ \A i \in DOMAIN stack :
       /\ Len(stack[i].contexts) <= scanRetries
       /\ \A k \in DOMAIN stack[i].contexts :
            stack[i].contexts[k] = contextName(zapScanner.scanStartTime)
       /\ stack[i].nested <= scanRetries * scanRetries
  /\ lastRetry.name \in {"Session Configuration", "ZAP Configuration"}
       => lastRetry.nested <= scanRetries * scanRetries

\* The ninth attempt of the 'Session Configuration' body fails, in the third
\* attempt of 'Context Initialization'.
C36_Witness ==
  /\ lastRetry.name = "Session Configuration"
  /\ lastRetry.kind = "threw"
  /\ lastRetry.nested = scanRetries * scanRetries
  /\ outcome.kind = "thrown"
  /\ Includes(outcome.message, "Context Initialization")

C36_ThirdNewContext ==
  /\ pc = "sessionConfig"
  /\ Len(stack[1].contexts) = scanRetries
  /\ stack[1].nested = 2 * scanRetries

C36_NinthZapConfiguration ==
  /\ lastRetry.name = "ZAP Configuration"
  /\ lastRetry.nested = scanRetries * scanRetries

\* C37: every security scan started through the monitoring fixture targets
\* the origin of the page it was called for: the scanner's target URL during
\* a performScan run is the base URL computed for that call.
C37_ScanTargetsPageOrigin ==
  \A i \in DOMAIN runs :
    runs[i].state = "running" => zapScanner.targetUrl = runs[i].baseUrl

\* C38: addTargetToContext addresses the context that performScan created
\* for the run: the context name of its includeInContext call is the name
\* performScan generated.
C38_TargetAddedToScanContext ==
  \A t \in zap.targets :
    zap.contexts # {} => t.context \in zap.contexts

C40_InvalidStatusFailsScan ==
  [][(/\ pc = "statusCheck"
      /\ poll.operation \in {"Spider Scan", "Active Scan"}
      /\ lastRetry'.kind = "returned"
      /\ lastRetry'.name = StatusCheckName(poll.operation)
      /\ parseInt(lastRetry'.value) = NaN)
     => (/\ pc' = "gate"
         /\ poll' = IdlePoll
         /\ outcome'.kind = "thrown"
         /\ Includes(outcome'.message, IF poll.operation = "Spider Scan"
                                       THEN "Invalid spider status:"
                                       ELSE "Invalid scan status:")
         /\ Includes(outcome'.message, lastRetry'.value)
         /\ outcome'.result.status = "failed")]_vars

\* The active scan answered 'stopped' after progress had been seen.
C40_Witness ==
  /\ pc = "gate"
  /\ lastRetry.name = "Active Scan Status Check"
  /\ lastRetry.kind = "returned"
  /\ lastRetry.value = "stopped"
  /\ outcome.kind = "thrown"
  /\ Includes(outcome.message, "Invalid scan status:")
  /\ jobs.spider = "finished"

====
